---- MODULE Spec2Model ----
(***************************************************************************)
(* A model of the transport and dispatch subsystem of mrp: profile         *)
(* selection and transport construction (mrp/config.py), output            *)
(* resolution on the host (mrp/runtime/base.py) and in the model           *)
(* (mrp/runner_context.py, mrp/environment.py), the file stager            *)
(* (mrp/stager.py), the orchestrator (mrp/orchestrator.py) and the two     *)
(* runtimes (mrp/runtime/inline.py, mrp/runtime/subprocess.py).            *)
(***************************************************************************)
EXTENDS Integers, Sequences, FiniteSets, TLC

(***************************************************************************)
(* Python values.  A value is tagged with its type: None, a str, an int,   *)
(* a list, or a dict (an insertion-ordered sequence of key/value entries   *)
(* with unique keys, as Python dicts are).  An exception leaving a         *)
(* function is the value Raise(exc).                                       *)
(***************************************************************************)
None == [t |-> "none"]

Str(s) == [t |-> "str", s |-> s]

IntV(i) == [t |-> "int", i |-> i]

List(l) == [t |-> "list", l |-> l]

E(k, v) == [k |-> k, v |-> v]

Dict(entries) == [t |-> "dict", d |-> entries]

Raise(exc) == [t |-> "raise", exc |-> exc]

EmptyDict == Dict(<<>>)

\* bool(v): None, "", 0, [] and {} are falsy
truthy(v) ==
    CASE v.t = "none" -> FALSE
      [] v.t = "str" -> v.s # ""
      [] v.t = "int" -> v.i # 0
      [] v.t = "hash" -> TRUE
      [] v.t = "path" -> TRUE
      [] v.t = "list" -> v.l # <<>>
      [] v.t = "dict" -> v.d # <<>>

\* k in d
dict_has(d, k) == \E i \in DOMAIN d.d : d.d[i].k = k

\* d.get(k, default)
dict_get(d, k, default) ==
    IF dict_has(d, k)
    THEN d.d[CHOOSE i \in DOMAIN d.d : d.d[i].k = k].v
    ELSE default

\* d.pop(k, None), as the dict left behind
dict_pop(d, k) == Dict(SelectSeq(d.d, LAMBDA e : e.k # k))

\* d[k] = v: an existing key keeps its place, a new key goes last
dict_set(d, k, v) ==
    IF dict_has(d, k)
    THEN Dict([i \in DOMAIN d.d |-> IF d.d[i].k = k THEN E(k, v) ELSE d.d[i]])
    ELSE Dict(Append(d.d, E(k, v)))

\* a == b for two values: dicts compare without regard to insertion order
RECURSIVE py_eq(_, _)
py_eq(a, b) ==
    IF a.t # b.t THEN FALSE
    ELSE IF a.t = "dict"
    THEN /\ Len(a.d) = Len(b.d)
         /\ \A i \in DOMAIN a.d :
               /\ dict_has(b, a.d[i].k)
               /\ py_eq(a.d[i].v, dict_get(b, a.d[i].k, None))
    ELSE a = b

(***************************************************************************)
(* mrp/config.py                                                           *)
(***************************************************************************)
select_profile_first_wins(section, profile_name) ==
    LET profiles == dict_get(section, "profile", None) IN
    IF ~truthy(profiles) THEN section
    ELSE IF truthy(profile_name) /\ dict_has(profiles, profile_name.s)
    THEN dict_get(profiles, profile_name.s, None)
    ELSE profiles.d[1].v

\* _select_profile(section, profile_name); dict(p) copies p, an equal value
select_profile(section, profile_name) ==
    LET profiles == dict_get(section, "profile", None) IN
    IF ~truthy(profiles) THEN section
    ELSE IF truthy(profile_name) /\ dict_has(profiles, profile_name.s)
    THEN dict_get(profiles, profile_name.s, None)
    ELSE IF dict_has(profiles, "default") THEN dict_get(profiles, "default", None)
    ELSE profiles.d[1].v

\* the runtime section with command/args stripped (lines 102-111)
strip_runtime(result) ==
    IF ~dict_has(result, "runtime") THEN result
    ELSE
      LET runtime == dict_get(result, "runtime", EmptyDict)
          profiles == dict_get(runtime, "profile", None)
      IN  IF truthy(profiles)
          THEN dict_set(result, "runtime",
                 dict_set(runtime, "profile",
                   Dict([i \in DOMAIN profiles.d |->
                          E(profiles.d[i].k,
                            dict_pop(dict_pop(profiles.d[i].v, "command"), "args"))])))
          ELSE dict_set(result, "runtime",
                 dict_pop(dict_pop(runtime, "command"), "args"))

\* staged files override raw URIs (lines 113-115)
inject_staged_files(result, staged_files) ==
    IF truthy(staged_files)
    THEN dict_set(result, "model",
           dict_set(dict_get(result, "model", EmptyDict), "files", staged_files))
    ELSE result

\* default to stdout output (lines 117-119)
default_output(result) ==
    IF ~dict_has(result, "output")
    THEN dict_set(result, "output", Dict(<<E("spec", Str("stdout"))>>))
    ELSE result

\* override the filesystem output dir if requested (lines 121-134);
\* output["profile"][target_name] raises KeyError for an undeclared name
override_output_dir(result, output_dir, output_profile) ==
    LET output == dict_get(result, "output", EmptyDict)
        output_section == select_profile(output, output_profile)
        profiles == dict_get(output, "profile", None)
    IN  IF dict_get(output_section, "spec", None) = Str("filesystem") /\ truthy(output_dir)
        THEN IF truthy(profiles)
             THEN LET target_name ==
                        IF truthy(output_profile) THEN output_profile.s
                        ELSE IF dict_has(profiles, "default") THEN "default"
                        ELSE profiles.d[1].k
                  IN  IF ~dict_has(profiles, target_name) THEN Raise("KeyError")
                      ELSE dict_set(result, "output",
                             dict_set(output, "profile",
                               dict_set(profiles, target_name,
                                 dict_set(dict_get(profiles, target_name, None),
                                          "dir", output_dir))))
             ELSE dict_set(result, "output", dict_set(output, "dir", output_dir))
        ELSE result

\* Python's order of the keys the model uses (str comparison by code point)
KeyOrder ==
    <<"", "a", "args", "b", "callable", "command", "default", "dir", "files", "geo",
      "input", "input_hash", "model", "mrp", "output", "pop", "profile", "r0",
      "replicate", "runtime", "seed", "spec", "version">>

key_rank(k) == CHOOSE i \in DOMAIN KeyOrder : KeyOrder[i] = k

\* sorted(d.items()): the entries by ascending key
RECURSIVE sorted_entries(_)
sorted_entries(entries) ==
    IF entries = <<>> THEN <<>>
    ELSE LET m == CHOOSE i \in DOMAIN entries :
                    \A j \in DOMAIN entries :
                        key_rank(entries[i].k) <= key_rank(entries[j].k)
         IN  <<entries[m]>> \o
             sorted_entries(SelectSeq(entries, LAMBDA e : e.k # entries[m].k))

RECURSIVE json_items(_, _, _)
RECURSIVE json_elems(_, _)
RECURSIVE json_dumps(_, _)
\* the members of an object: "key":value, joined by ","
json_items(entries, i, sort_keys) ==
    IF i > Len(entries) THEN <<>>
    ELSE (IF i > 1 THEN <<",">> ELSE <<>>)
         \o <<"\"", entries[i].k, "\"", ":">>
         \o json_dumps(entries[i].v, sort_keys)
         \o json_items(entries, i + 1, sort_keys)

\* the elements of an array, joined by ","
json_elems(l, sort_keys) ==
    IF l = <<>> THEN <<>>
    ELSE json_dumps(Head(l), sort_keys)
         \o (IF Len(l) > 1 THEN <<",">> ELSE <<>>)
         \o json_elems(Tail(l), sort_keys)

\* json.dumps(v, sort_keys=sort_keys, separators=(",", ":")), as its tokens
json_dumps(v, sort_keys) ==
    CASE v.t = "none" -> <<"null">>
      [] v.t = "str" -> <<"\"", v.s, "\"">>
      [] v.t = "int" -> <<ToString(v.i)>>
      [] v.t = "hash" -> <<"\"", "sha256[:16](">> \o v.h \o <<")", "\"">>
      [] v.t = "path" -> <<"\"", "/tmp/mrp_staged_", ToString(v.root), "/", v.name,
                             "/", v.base, "\"">>
      [] v.t = "list" -> <<"[">> \o json_elems(v.l, sort_keys) \o <<"]">>
      [] v.t = "dict" ->
           <<"{">>
           \o json_items(IF sort_keys THEN sorted_entries(v.d) ELSE v.d, 1, sort_keys)
           \o <<"}">>

\* hashlib.sha256(canonical.encode()).hexdigest()[:16]: the digest is kept
\* symbolic, a str value that names the bytes it was computed from, so two
\* digests are equal exactly when their bytes are (no collision is modelled)
sha256_hex16(canonical) == [t |-> "hash", h |-> canonical]

canonical_unsorted(result) == json_dumps(result, FALSE)

canonical_input_only(result) == json_dumps(dict_get(result, "input", None), TRUE)

\* canonical = json.dumps(result, sort_keys=True, separators=(",", ":")) (line 137)
canonical_json(result) == json_dumps(result, TRUE)

\* input_hash (line 138)
compute_input_hash(result) == sha256_hex16(canonical_json(result))

\* result["mrp"] = {"version": "0.0.1", "input_hash": input_hash} (lines 136-139)
attach_mrp(result) ==
    dict_set(result, "mrp",
      Dict(<<E("version", Str("0.0.1")),
             E("input_hash", compute_input_hash(result))>>))

\* build_run_json(config, staged_files=, output_dir=, output_profile=)
build_run_json(config, staged_files, output_dir, output_profile) ==
    LET result == default_output(inject_staged_files(strip_runtime(config), staged_files))
        overridden == override_output_dir(result, output_dir, output_profile)
    IN  IF overridden.t = "raise" THEN overridden ELSE attach_mrp(overridden)

(***************************************************************************)
(* mrp/runtime/base.py: the host side of output resolution                 *)
(***************************************************************************)
\* Runtime._prepare_output(run_json, output_profile): the directory handed
\* to Path(out_dir).mkdir(parents=True, exist_ok=True), or None
prepare_output_any_spec(transport, output_profile) ==
    LET output == dict_get(transport, "output", EmptyDict)
        profiles == dict_get(output, "profile", None)
    IN  IF truthy(dict_get(output, "dir", None)) THEN dict_get(output, "dir", None)
        ELSE IF truthy(profiles)
        THEN LET chosen == select_profile(output, output_profile) IN
             IF truthy(dict_get(chosen, "dir", None))
             THEN dict_get(chosen, "dir", None) ELSE None
        ELSE None

prepare_output(run_json, output_profile) ==
    LET output == dict_get(run_json, "output", EmptyDict)
        profiles == dict_get(output, "profile", None)
    IN  IF dict_get(output, "spec", None) = Str("filesystem")
        THEN IF truthy(dict_get(output, "dir", None))
             THEN dict_get(output, "dir", None) ELSE None
        ELSE IF truthy(profiles)
        THEN LET selected == select_profile(output, output_profile) IN
             IF /\ dict_get(selected, "spec", None) = Str("filesystem")
                /\ truthy(dict_get(selected, "dir", None))
             THEN dict_get(selected, "dir", None) ELSE None
        ELSE None

(***************************************************************************)
(* mrp/runner_context.py, mrp/environment.py: the model side               *)
(***************************************************************************)
\* RunnerContext.output_dir, over self._output = data.get("output", {})
rc_output_dir(output) ==
    LET profiles == dict_get(output, "profile", None) IN
    IF dict_get(output, "spec", None) = Str("filesystem")
    THEN IF truthy(dict_get(output, "dir", None))
         THEN dict_get(output, "dir", None) ELSE None
    ELSE IF truthy(profiles)
    THEN LET selected == IF truthy(dict_get(profiles, "default", None))
                         THEN dict_get(profiles, "default", None)
                         ELSE profiles.d[1].v
         IN  IF /\ truthy(selected)
                /\ dict_get(selected, "spec", None) = Str("filesystem")
                /\ truthy(dict_get(selected, "dir", None))
             THEN dict_get(selected, "dir", None) ELSE None
    ELSE None

\* Environment.output_dir, over self._output = data.get("output", {})
env_output_dir(output) ==
    LET profiles == dict_get(output, "profile", None) IN
    IF dict_get(output, "spec", None) = Str("filesystem")
    THEN IF truthy(dict_get(output, "dir", None))
         THEN dict_get(output, "dir", None) ELSE None
    ELSE IF truthy(profiles)
    THEN LET selected == IF truthy(dict_get(profiles, "default", None))
                         THEN dict_get(profiles, "default", None)
                         ELSE profiles.d[1].v
         IN  IF /\ truthy(selected)
                /\ dict_get(selected, "spec", None) = Str("filesystem")
                /\ truthy(dict_get(selected, "dir", None))
             THEN dict_get(selected, "dir", None) ELSE None
    ELSE None

(***************************************************************************)
(* mrp/stager.py                                                           *)
(***************************************************************************)
\* the n-th directory tempfile.mkdtemp(prefix="mrp_staged_") made
TmpDir(n) == [t |-> "tmpdir", n |-> n]

\* str(get_stage_dir() / name / Path(parsed.path).name)
StagedPath(root, name, base) == [t |-> "path", root |-> root.n, name |-> name, base |-> base]

\* a get_stage_dir that makes a directory on every call
get_stage_dir_always_new(dir, count) == TmpDir(count + 1)

\* get_stage_dir(): the root held, or the one mkdtemp makes
get_stage_dir(dir, count) == IF dir = None THEN TmpDir(count + 1) ELSE dir

\* the URIs the model stages, with urlparse(uri).scheme and Path(parsed.path).name
Uris ==
    { "./local/pop.csv", "./missing.csv", "https://host/data.csv",
      "s3://bucket/data.csv", "ftp://host/data.csv" }

uri_scheme(uri) ==
    CASE uri = "./local/pop.csv" -> ""
      [] uri = "./missing.csv" -> ""
      [] uri = "https://host/data.csv" -> "https"
      [] uri = "s3://bucket/data.csv" -> "s3"
      [] uri = "ftp://host/data.csv" -> "ftp"

\* str(Path(uri)) for a local uri: pathlib drops a leading "./"
path_str(uri) ==
    CASE uri = "./local/pop.csv" -> "local/pop.csv"
      [] uri = "./missing.csv" -> "missing.csv"

\* the local paths for which Path.exists() holds
LocalFiles == {"./local/pop.csv"}

\* a placeholder branch that returns the URI instead of raising
stage_one_s3_passes(name, uri, root) ==
    IF uri_scheme(uri) \in {"", "file"}
    THEN IF uri \notin LocalFiles THEN Raise("FileNotFoundError")
         ELSE Str(path_str(uri))
    ELSE IF uri_scheme(uri) \in {"http", "https"}
    THEN StagedPath(root, name, "data.csv")
    ELSE IF uri_scheme(uri) = "s3" THEN Str(uri)
    ELSE Raise("ValueError")

\* _stage_one(name, uri) given the staging root get_stage_dir() would return:
\* the local path, or the exception raised
stage_one(name, uri, root) ==
    IF uri_scheme(uri) \in {"", "file"}
    THEN IF uri \notin LocalFiles THEN Raise("FileNotFoundError")
         ELSE Str(path_str(uri))
    ELSE IF uri_scheme(uri) \in {"http", "https"}
    THEN StagedPath(root, name, "data.csv")
    ELSE IF uri_scheme(uri) = "s3" THEN Raise("NotImplementedError")
    ELSE Raise("ValueError")

\* whether _stage_one reaches get_stage_dir() and downloads
stage_one_fetches(uri) == uri_scheme(uri) \in {"http", "https"}

\* cleanup(): whether `_stage_dir and _stage_dir.exists()` holds
cleanup_removes(dir, dirs) == dir # None /\ dir \in dirs

(***************************************************************************)
(* mrp/orchestrator.py                                                     *)
(***************************************************************************)
\* RunResult(exit_code, stdout, stderr)
RunResult(exit_code, stdout, stderr) ==
    [t |-> "result", exit_code |-> exit_code, stdout |-> stdout, stderr |-> stderr]

\* RunResult.ok
ok(result) == result.exit_code = 0

cleanup_only_after_return(outcome) ==
    IF outcome.t = "raise" THEN "raised" ELSE "finally"

\* Orchestrator.run: try: return runtime.run(run_json) finally: cleanup().
\* Where control goes once runtime.run has returned or raised
orchestrator_run_next(outcome) == "finally"

(***************************************************************************)
(* The inputs: configs as a TOML file or a caller's dict can give them.    *)
(***************************************************************************)
\* the most profiles a profile map declares
MaxProfiles == 2

ProfileNames == {"default", "a", "b"}

Absent == [t |-> "absent"]

Unset == [t |-> "unset"]

SeqsUpTo(S, n) == UNION {[1..m -> S] : m \in 0..n}

\* every profile map over the names and the flat sections given
ProfileMaps(names, sections) ==
    {Dict(q) : q \in {s \in SeqsUpTo({E(k, v) : k \in names, v \in sections}, MaxProfiles) :
                        \A i, j \in DOMAIN s : i # j => s[i].k # s[j].k}}

\* a section is flat, profiled, or carries flat keys beside a profile map
Sections(flats, names, sections) ==
    flats \cup {dict_set(f, "profile", pm) : f \in flats, pm \in ProfileMaps(names, sections)}

OutputFlats ==
    { EmptyDict,
      Dict(<<E("spec", Str("stdout"))>>),
      Dict(<<E("spec", Str("stdout")), E("dir", Str("/d1"))>>),
      Dict(<<E("spec", Str("filesystem")), E("dir", Str("/d1"))>>),
      Dict(<<E("spec", Str("filesystem"))>>) }

OutputProfiles ==
    { EmptyDict,
      Dict(<<E("spec", Str("stdout"))>>),
      Dict(<<E("spec", Str("filesystem")), E("dir", Str("/d1"))>>),
      Dict(<<E("spec", Str("filesystem")), E("dir", Str("/d2"))>>),
      Dict(<<E("spec", Str("filesystem"))>>) }

OutputSections == Sections(OutputFlats, ProfileNames, OutputProfiles)

RuntimeFlats ==
    { EmptyDict,
      Dict(<<E("spec", Str("process"))>>),
      Dict(<<E("command", Str("python3"))>>),
      Dict(<<E("spec", Str("process")), E("command", Str("python3")),
             E("args", List(<<Str("-c"), Str("pass")>>))>>) }

RuntimeProfiles ==
    { EmptyDict,
      Dict(<<E("spec", Str("inline")), E("callable", Str("json:loads"))>>),
      Dict(<<E("spec", Str("process")), E("command", Str("docker")),
             E("args", List(<<Str("run")>>))>>) }

RuntimeSections == Sections(RuntimeFlats, {"default", "a"}, RuntimeProfiles)

\* a config with the sections given (Absent: the section is not there)
MkConfig(runtime, input, output) ==
    Dict(<<E("model", Dict(<<E("spec", Str("test"))>>))>>
         \o (IF runtime = Absent THEN <<>> ELSE <<E("runtime", runtime)>>)
         \o (IF input = Absent THEN <<>> ELSE <<E("input", input)>>)
         \o (IF output = Absent THEN <<>> ELSE <<E("output", output)>>))

Configs ==
    {MkConfig(r, EmptyDict, Dict(<<E("spec", Str("filesystem")), E("dir", Str("/d1"))>>)) :
        r \in RuntimeSections \cup {Absent}}
    \cup
    {MkConfig(Dict(<<E("spec", Str("process")), E("command", Str("python3"))>>),
              EmptyDict, o) : o \in OutputSections \cup {Absent}}

StagedFiles == {EmptyDict, Dict(<<E("pop", Str("/stage/pop/pop.csv"))>>)}

OutputDirs == {None, Str("/out")}

OutputProfileArgs == {None, Str("a"), Str("x")}

(***************************************************************************)
(* State                                                                   *)
(***************************************************************************)
VARIABLES
    pc,              \* where the build-and-resolve run stands
    config,          \* build_run_json's config
    staged_files,    \* build_run_json's staged_files
    output_dir,      \* build_run_json's output_dir
    output_profile,  \* build_run_json's output_profile
    run_json,        \* the transport built, or the exception raised
    host_dir,        \* the directory _prepare_output created, or None
    rc_dir,          \* RunnerContext(run_json).output_dir
    env_dir,         \* Environment(run_json).output_dir
    section,         \* _select_profile's section
    profile_name,    \* _select_profile's profile_name
    selected,        \* what _select_profile returned
    first_build,     \* an earlier build_run_json call: its arguments and result
    stage_dir,       \* stager._stage_dir
    fs_dirs,         \* the staging roots that exist on disk
    fs_files,        \* the files fetched that exist on disk, by root and name
    tmp_count,       \* how many directories mkdtemp has made
    runs,            \* how many execute calls have been made
    orch,            \* per invocation of DefaultOrchestrator.execute: its frame
    sys_stdout,      \* sys.stdout
    sys_stderr,      \* sys.stderr
    bufs,            \* per InlineRuntime.run call: its two capture buffers
    inl,             \* per InlineRuntime.run call: its frame
    inline_runs,     \* how many InlineRuntime.run calls have been made
    sub,             \* per SubprocessRuntime.run call: its frame
    sub_runs,        \* how many SubprocessRuntime.run calls have been made
    heap,            \* the dict objects that exist, by address
    mop,             \* which merge or build function is called
    margs,           \* its arguments: references into the heap, and scalars
    mbefore,         \* the contents of the arguments before the call
    mret,            \* what the call returned: a reference, or the exception
    transports,      \* per model process: the transport it is given, and its contents then
    ctx,             \* per model process: its RunnerContext or Environment
    gens,            \* the numpy Generators that exist, by identity
    stg,             \* the stager called directly: what has happened since the last cleanup
    api,             \* mrp.run: how many calls were made, and what the last one did
    resolve_call,    \* resolve_runtime: its arguments and what it returned or raised
    csv              \* an Environment's CSV writers, the files it opened, and the calls made

build_vars ==
    <<pc, config, staged_files, output_dir, output_profile, run_json,
      host_dir, rc_dir, env_dir>>

select_vars == <<section, profile_name, selected>>

orch_vars == <<stage_dir, fs_dirs, fs_files, tmp_count, runs, orch>>

inline_vars == <<sys_stdout, sys_stderr, bufs, inl, inline_runs>>

subprocess_vars == <<sub, sub_runs>>

\* the state of the transport build, the stager and the runtimes
core_vars ==
    <<build_vars, select_vars, first_build, orch_vars, inline_vars, subprocess_vars>>

merge_vars == <<heap, mop, margs, mbefore, mret>>

\* the state of the calls that work on structures by reference
context_vars == <<transports, ctx, gens>>

\* the state of the direct calls of the stager, of mrp.run, of resolve_runtime
\* and of an Environment's CSV writers
call_vars == <<stg, api, resolve_call, csv>>

ext_vars == <<merge_vars, context_vars, call_vars>>

vars == <<core_vars, ext_vars>>

\* no transport is being built
BuildIdle ==
    /\ pc = "idle"
    /\ config = Unset
    /\ staged_files = Unset
    /\ output_dir = Unset
    /\ output_profile = Unset
    /\ run_json = Unset
    /\ host_dir = Unset
    /\ rc_dir = Unset
    /\ env_dir = Unset

\* the invocations of the orchestrator
Procs == {1, 2}

\* the frame of an invocation that has not been called
IdleFrame ==
    [ pc |-> "idle", config |-> Unset, runtime |-> Unset, output_dir |-> Unset,
      output_profile |-> Unset, i |-> 0, staged |-> Unset, run_json |-> Unset,
      outcome |-> Unset, result |-> Unset, created |-> {}, cleanups |-> 0 ]

\* nothing staged, no orchestrator called
OrchIdle ==
    /\ stage_dir = None
    /\ fs_dirs = {}
    /\ fs_files = {}
    /\ tmp_count = 0
    /\ runs = 0
    /\ orch = [p \in Procs |-> IdleFrame]

\* the stream the process had installed as sys.stdout or sys.stderr
Original(name) == [t |-> "stream", name |-> name]

\* the io.TextIOWrapper over the io.BytesIO a run call p made for a stream
Buffer(p, name) == [t |-> "buffer", owner |-> p, name |-> name]

\* two fresh buffers: nothing written, not closed
FreshBuffers ==
    [ stdout |-> [data |-> <<>>, closed |-> FALSE],
      stderr |-> [data |-> <<>>, closed |-> FALSE] ]

\* the frame of a run call that has not been made
IdleInline ==
    [ pc |-> "idle", fn |-> Unset, transport |-> Unset, prepared |-> Unset,
      old_stdout |-> Unset, old_stderr |-> Unset, exc |-> None,
      exit_code |-> Unset, result |-> Unset,
      began |-> 0, unnested |-> FALSE ]

\* no InlineRuntime.run call made
InlineNoCalls ==
    /\ bufs = [p \in Procs |-> FreshBuffers]
    /\ inl = [p \in Procs |-> IdleInline]
    /\ inline_runs = 0

\* no InlineRuntime.run call made: the process has its own streams
InlineIdle ==
    /\ sys_stdout = Original("stdout")
    /\ sys_stderr = Original("stderr")
    /\ InlineNoCalls

\* the frame of a SubprocessRuntime.run call that has not been made
IdleSub ==
    [ pc |-> "idle", command |-> Unset, timeout |-> Unset, transport |-> Unset,
      prepared |-> Unset,
      input_bytes |-> Unset, attempts |-> 0, child |-> Unset, result |-> Unset ]

\* no SubprocessRuntime.run call made
SubprocessIdle ==
    /\ sub = [p \in Procs |-> IdleSub]
    /\ sub_runs = 0

\* no merge or build call on structures by reference is made
MergeIdle ==
    /\ heap = <<>>
    /\ mop = "idle"
    /\ margs = Unset
    /\ mbefore = Unset
    /\ mret = Unset

\* no model-side context is built
ContextIdle ==
    /\ transports = Unset
    /\ ctx = Unset
    /\ gens = <<>>

\* stage_files and cleanup have not been called directly
StagerIdle == stg = Unset

\* mrp.run has not been called
ApiIdle == api = Unset

\* resolve_runtime has not been called
ResolveIdle == resolve_call = Unset

\* no Environment has made a CSV writer
CsvIdle == csv = Unset

CallIdle == StagerIdle /\ ApiIdle /\ ResolveIdle /\ CsvIdle

ExtIdle == MergeIdle /\ ContextIdle /\ CallIdle

\* no direct call of _select_profile is made
SelectIdle ==
    /\ section = Unset
    /\ profile_name = Unset
    /\ selected = Unset

BuildInit ==
    /\ pc = "config"
    /\ config \in Configs
    /\ staged_files \in StagedFiles
    /\ output_dir \in OutputDirs
    /\ output_profile \in OutputProfileArgs
    /\ run_json = Unset
    /\ host_dir = Unset
    /\ rc_dir = Unset
    /\ env_dir = Unset

\* run_json = build_run_json(config, staged_files=, output_dir=, output_profile=)
BuildRunJson ==
    /\ pc = "config"
    /\ run_json' = build_run_json(config, staged_files, output_dir, output_profile)
    /\ pc' = IF run_json'.t = "raise" THEN "raised" ELSE "built"
    /\ UNCHANGED <<config, staged_files, output_dir, output_profile,
                   host_dir, rc_dir, env_dir>>
    /\ UNCHANGED <<select_vars, first_build, orch_vars, inline_vars, subprocess_vars, ext_vars>>

\* the runtime's pre-flight: self._prepare_output(run_json)
PrepareOutput ==
    /\ pc = "built"
    /\ host_dir' = prepare_output(run_json, None)
    /\ pc' = "prepared"
    /\ UNCHANGED <<config, staged_files, output_dir, output_profile,
                   run_json, rc_dir, env_dir>>
    /\ UNCHANGED <<select_vars, first_build, orch_vars, inline_vars, subprocess_vars, ext_vars>>

\* the model reads RunnerContext(run_json).output_dir
RunnerContextOutputDir ==
    /\ pc = "prepared"
    /\ rc_dir' = rc_output_dir(dict_get(run_json, "output", EmptyDict))
    /\ pc' = "rc"
    /\ UNCHANGED <<config, staged_files, output_dir, output_profile,
                   run_json, host_dir, env_dir>>
    /\ UNCHANGED <<select_vars, first_build, orch_vars, inline_vars, subprocess_vars, ext_vars>>

\* the model reads Environment(run_json).output_dir
EnvironmentOutputDir ==
    /\ pc = "rc"
    /\ env_dir' = env_output_dir(dict_get(run_json, "output", EmptyDict))
    /\ pc' = "resolved"
    /\ UNCHANGED <<config, staged_files, output_dir, output_profile,
                   run_json, host_dir, rc_dir>>
    /\ UNCHANGED <<select_vars, first_build, orch_vars, inline_vars, subprocess_vars, ext_vars>>

Init == BuildInit /\ SelectIdle /\ first_build = Unset /\ OrchIdle /\ InlineIdle /\ SubprocessIdle /\ ExtIdle

Next ==
    \/ BuildRunJson
    \/ PrepareOutput
    \/ RunnerContextOutputDir
    \/ EnvironmentOutputDir

\* one transport built from a config, then resolved on the host and in the model
Spec == Init /\ [][Next]_vars

(***************************************************************************)
(* _select_profile called on its own, as resolve_runtime and the tests do  *)
(***************************************************************************)
SelectFlats ==
    { EmptyDict,
      Dict(<<E("spec", Str("stdout"))>>),
      Dict(<<E("spec", Str("process")), E("command", Str("python3"))>>) }

SelectProfiles ==
    { Dict(<<E("spec", Str("stdout"))>>),
      Dict(<<E("spec", Str("filesystem")), E("dir", Str("/d1"))>>),
      Dict(<<E("spec", Str("filesystem")), E("dir", Str("/d2"))>>) }

SelectSections == Sections(SelectFlats, ProfileNames \cup {""}, SelectProfiles)

SelectNames == {None, Str(""), Str("a"), Str("default"), Str("x")}

SelectInit ==
    /\ section \in SelectSections
    /\ profile_name \in SelectNames
    /\ selected = Unset

\* selected = _select_profile(section, profile_name)
SelectProfile ==
    /\ selected = Unset
    /\ section # Unset
    /\ selected' = select_profile(section, profile_name)
    /\ UNCHANGED <<section, profile_name>>
    /\ UNCHANGED <<build_vars, first_build, orch_vars, inline_vars, subprocess_vars, ext_vars>>

SelectSpecInit ==
    /\ SelectInit
    /\ BuildIdle /\ first_build = Unset /\ OrchIdle /\ InlineIdle /\ SubprocessIdle
    /\ ExtIdle

SelectNext == SelectProfile

SpecSelect == SelectSpecInit /\ [][SelectNext]_vars

(***************************************************************************)
(* build_run_json called twice, to compare the two input_hash values       *)
(***************************************************************************)
HashInputs ==
    { EmptyDict,
      Dict(<<E("r0", IntV(2))>>),
      Dict(<<E("r0", IntV(3))>>),
      Dict(<<E("r0", Str("2"))>>),
      Dict(<<E("r0", IntV(2)), E("seed", IntV(1))>>),
      Dict(<<E("seed", IntV(1)), E("r0", IntV(2))>>) }

HashOutputs ==
    { Absent,
      Dict(<<E("spec", Str("stdout"))>>),
      Dict(<<E("spec", Str("filesystem")), E("dir", Str("/d1"))>>),
      Dict(<<E("dir", Str("/d1")), E("spec", Str("filesystem"))>>),
      Dict(<<E("spec", Str("filesystem")), E("dir", Str("/d2"))>>) }
    \cup
    { Dict(<<E("profile", pm)>>) :
        pm \in { q \in ProfileMaps({"a", "b"},
                                   { Dict(<<E("spec", Str("filesystem")), E("dir", Str("/d1"))>>),
                                     Dict(<<E("spec", Str("filesystem")), E("dir", Str("/d2"))>>) }) :
                   Len(q.d) = 2 } }

HashRuntimes ==
    { Absent,
      Dict(<<E("spec", Str("process")), E("command", Str("python3"))>>),
      Dict(<<E("spec", Str("inline")), E("callable", Str("json:loads"))>>) }

\* configs that differ from one another in one section, or in key order only
HashConfigs ==
    {MkConfig(Absent, i, Absent) : i \in HashInputs \cup {Absent}}
    \cup {MkConfig(Absent, Dict(<<E("r0", IntV(2))>>), o) : o \in HashOutputs}
    \cup {MkConfig(r, Dict(<<E("r0", IntV(2))>>), Absent) : r \in HashRuntimes}

HashInit ==
    /\ pc = "config"
    /\ config \in HashConfigs
    /\ staged_files \in StagedFiles
    /\ output_dir \in OutputDirs
    /\ output_profile \in {None, Str("b")}
    /\ run_json = Unset
    /\ host_dir = Unset
    /\ rc_dir = Unset
    /\ env_dir = Unset
    /\ first_build = Unset

\* the caller keeps the first transport and calls build_run_json once more,
\* on another config or on the transport it has just built
BuildAgain ==
    /\ pc \in {"built", "raised"}
    /\ first_build = Unset
    /\ first_build' = [config |-> config, staged_files |-> staged_files,
                       output_dir |-> output_dir, output_profile |-> output_profile,
                       run_json |-> run_json]
    /\ pc' = "config"
    /\ config' \in HashConfigs \cup (IF run_json.t = "dict" THEN {run_json} ELSE {})
    /\ staged_files' \in StagedFiles
    /\ output_dir' \in OutputDirs
    /\ output_profile' \in {None, Str("b")}
    /\ run_json' = Unset
    /\ UNCHANGED <<host_dir, rc_dir, env_dir, select_vars, orch_vars, inline_vars, subprocess_vars, ext_vars>>

HashSpecInit == HashInit /\ SelectIdle /\ OrchIdle /\ InlineIdle /\ SubprocessIdle /\ ExtIdle

HashNext == BuildRunJson \/ BuildAgain

SpecHash == HashSpecInit /\ [][HashNext]_vars

(***************************************************************************)
(* DefaultOrchestrator.execute: stage, build, run, clean up                *)
(***************************************************************************)
\* the most entries of model.files
MaxFiles == 2

\* the most execute calls
MaxRuns == 2

\* the most staging roots mkdtemp makes
MaxStageDirs == 2

FileNames == {"pop", "geo"}

\* every model.files map
FileMaps ==
    {Dict(q) : q \in {f \in SeqsUpTo({E(k, Str(u)) : k \in FileNames, u \in Uris}, MaxFiles) :
                        \A i, j \in DOMAIN f : i # j => f[i].k # f[j].k}}

OrchOutputs ==
    { Dict(<<E("spec", Str("stdout"))>>),
      Dict(<<E("profile", Dict(<<E("a", Dict(<<E("spec", Str("filesystem")),
                                               E("dir", Str("/d1"))>>))>>))>>) }

\* a config with model.files (no files key when the map is Absent)
OrchConfig(files, output) ==
    Dict(<<E("model", IF files = Absent THEN Dict(<<E("spec", Str("test"))>>)
                      ELSE Dict(<<E("spec", Str("test")), E("files", files)>>)),
           E("runtime", Dict(<<E("spec", Str("process")), E("command", Str("python3"))>>)),
           E("output", output)>>)

OrchConfigs == {OrchConfig(f, o) : f \in FileMaps \cup {Absent}, o \in OrchOutputs}

\* DefaultOrchestrator(output_dir=, output_profile=)
OrchOptions ==
    { [output_dir |-> None, output_profile |-> None],
      [output_dir |-> Str("/out"), output_profile |-> Str("x")] }

\* what runtime.run(run_json) can do: return a RunResult, or raise
\* (subprocess.TimeoutExpired on a timeout, FileNotFoundError on a failed spawn)
RuntimeOutcomes ==
    { RunResult(0, "out", ""), RunResult(3, "", "err"),
      Raise("TimeoutExpired"), Raise("FileNotFoundError") }

\* config.get("model", {}).get("files", {})
raw_files(cfg) == dict_get(dict_get(cfg, "model", EmptyDict), "files", EmptyDict)

\* execute(config, runtime): raises ValueError without a runtime, else enters
\* build_run, which stages the files if there are any
Execute(p) ==
    /\ orch[p].pc = "idle"
    /\ runs < MaxRuns
    /\ runs' = runs + 1
    /\ \E cfg \in OrchConfigs, rt \in {None, Str("runtime")}, opt \in OrchOptions :
         orch' = [orch EXCEPT ![p] =
                    [ IdleFrame EXCEPT
                        !.config = cfg, !.runtime = rt,
                        !.output_dir = opt.output_dir,
                        !.output_profile = opt.output_profile,
                        !.i = 1, !.staged = EmptyDict,
                        !.pc = IF rt = None THEN "raised"
                               ELSE IF truthy(raw_files(cfg)) THEN "stage_files"
                               ELSE "build_run_json",
                        !.result = IF rt = None THEN Raise("ValueError") ELSE Unset ]]
    /\ UNCHANGED <<stage_dir, fs_dirs, fs_files, tmp_count>>
    /\ UNCHANGED <<build_vars, select_vars, first_build, inline_vars, subprocess_vars, ext_vars>>

\* one turn of the loop of stage_files: staged[name] = str(_stage_one(name, uri))
StageOne(p) ==
    /\ orch[p].pc = "stage_files"
    /\ orch[p].i <= Len(raw_files(orch[p].config).d)
    /\ LET entry == raw_files(orch[p].config).d[orch[p].i]
           name == entry.k
           uri == entry.v.s
           fetch == stage_one_fetches(uri)
           \* get_stage_dir(): mkdtemp when _stage_dir is None
           fresh == fetch /\ stage_dir = None
           root == get_stage_dir(stage_dir, tmp_count)
           local == stage_one(name, uri, root)
       IN  /\ fresh => tmp_count < MaxStageDirs
           /\ tmp_count' = IF fresh THEN tmp_count + 1 ELSE tmp_count
           /\ stage_dir' = IF fetch THEN root ELSE stage_dir
           \* dest.parent.mkdir(parents=True, exist_ok=True); urlretrieve(uri, dest)
           /\ fs_dirs' = IF fetch THEN fs_dirs \cup {root} ELSE fs_dirs
           /\ fs_files' = IF fetch THEN fs_files \cup {<<root, name>>} ELSE fs_files
           /\ orch' = [orch EXCEPT ![p] =
                IF local.t = "raise"
                THEN [@ EXCEPT !.pc = "raised", !.result = local]
                ELSE [@ EXCEPT
                        !.staged = dict_set(@, name, local),
                        !.i = @ + 1,
                        !.created = IF fresh THEN @ \cup {root} ELSE @,
                        !.pc = IF orch[p].i = Len(raw_files(orch[p].config).d)
                               THEN "build_run_json" ELSE "stage_files"]]
    /\ UNCHANGED runs
    /\ UNCHANGED <<build_vars, select_vars, first_build, inline_vars, subprocess_vars, ext_vars>>

\* build_run: return build_run_json(config, staged_files=, output_dir=, output_profile=)
BuildRun(p) ==
    /\ orch[p].pc = "build_run_json"
    /\ LET built == build_run_json(orch[p].config, orch[p].staged,
                                   orch[p].output_dir, orch[p].output_profile)
       IN  orch' = [orch EXCEPT ![p] =
                IF built.t = "raise"
                THEN [@ EXCEPT !.pc = "raised", !.result = built]
                ELSE [@ EXCEPT !.pc = "run", !.run_json = built]]
    /\ UNCHANGED <<stage_dir, fs_dirs, fs_files, tmp_count, runs>>
    /\ UNCHANGED <<build_vars, select_vars, first_build, inline_vars, subprocess_vars, ext_vars>>

\* Orchestrator.run: runtime.run(run_json) returns or raises
RuntimeRun(p) ==
    /\ orch[p].pc = "run"
    /\ \E outcome \in RuntimeOutcomes :
         orch' = [orch EXCEPT ![p] =
                    [@ EXCEPT !.outcome = outcome,
                              !.pc = orchestrator_run_next(outcome),
                              !.result = IF orchestrator_run_next(outcome) = "raised"
                                         THEN outcome ELSE Unset]]
    /\ UNCHANGED <<stage_dir, fs_dirs, fs_files, tmp_count, runs>>
    /\ UNCHANGED <<build_vars, select_vars, first_build, inline_vars, subprocess_vars, ext_vars>>

\* Orchestrator.run: the finally block calls cleanup(), then the RunResult
\* is returned or the exception goes on to the caller
Cleanup(p) ==
    /\ orch[p].pc = "finally"
    /\ IF cleanup_removes(stage_dir, fs_dirs)
       THEN /\ fs_dirs' = fs_dirs \ {stage_dir}
            /\ fs_files' = {f \in fs_files : f[1] # stage_dir}
            /\ stage_dir' = None
       ELSE UNCHANGED <<stage_dir, fs_dirs, fs_files>>
    /\ orch' = [orch EXCEPT ![p] =
                 [@ EXCEPT !.cleanups = @ + 1,
                           !.result = orch[p].outcome,
                           !.pc = IF orch[p].outcome.t = "raise"
                                  THEN "raised" ELSE "returned"]]
    /\ UNCHANGED <<tmp_count, runs>>
    /\ UNCHANGED <<build_vars, select_vars, first_build, inline_vars, subprocess_vars, ext_vars>>

\* the caller has the result or the exception; the frame is gone
Finish(p) ==
    /\ orch[p].pc \in {"returned", "raised"}
    /\ orch' = [orch EXCEPT ![p] = IdleFrame]
    /\ UNCHANGED <<stage_dir, fs_dirs, fs_files, tmp_count, runs>>
    /\ UNCHANGED <<build_vars, select_vars, first_build, inline_vars, subprocess_vars, ext_vars>>

OrchStep(p) ==
    \/ Execute(p)
    \/ StageOne(p)
    \/ BuildRun(p)
    \/ RuntimeRun(p)
    \/ Cleanup(p)
    \/ Finish(p)

OrchInit == OrchIdle /\ BuildIdle /\ SelectIdle /\ first_build = Unset /\ InlineIdle /\ SubprocessIdle /\ ExtIdle

\* the default orchestrator never runs concurrently with itself
SpecOrch == OrchInit /\ [][OrchStep(1)]_vars

\* two invocations that overlap, as a custom orchestrator or two threads of
\* one process can make them, with no coordination between them
OverlapFiles ==
    { Absent,
      Dict(<<E("pop", Str("https://host/data.csv"))>>),
      Dict(<<E("pop", Str("./local/pop.csv")), E("geo", Str("https://host/data.csv"))>>) }

\* the configs the overlapping invocations are given
OverlapConfigs == {OrchConfig(f, Dict(<<E("spec", Str("stdout"))>>)) : f \in OverlapFiles}

OverlapNext ==
    \E p \in Procs :
        /\ OrchStep(p)
        /\ orch'[p].config \in OverlapConfigs \cup {Unset}
        /\ orch'[p].output_dir \in {None, Unset}

SpecOverlap == OrchInit /\ [][OverlapNext]_vars

(***************************************************************************)
(* mrp/runtime/inline.py: InlineRuntime.run                                *)
(***************************************************************************)
\* the most InlineRuntime.run calls
MaxInlineRuns == 2

\* raise SystemExit(code)
SystemExit(code) == [t |-> "raise", exc |-> "SystemExit", code |-> code]

\* how a callable ends: it returns, raises an Exception, exits on purpose
\* (with an int, with no code, with a message), or raises a BaseException
\* that is no Exception
FnEnds ==
    { None, Raise("ValueError"), Raise("KeyboardInterrupt"),
      SystemExit(IntV(0)), SystemExit(IntV(42)), SystemExit(None),
      SystemExit(Str("fatal")) }

\* what a callable does: print to sys.stdout or not, close one of the two
\* streams it finds installed or none, and end
Callables ==
    [ prints : BOOLEAN, closes : {"none", "stdout", "stderr"}, ends : FnEnds ]

\* the output sections of the transports a runtime is given: flat ones, and
\* ones with profiles
TransportOutputs ==
    { Dict(<<E("spec", Str("stdout"))>>),
      Dict(<<E("spec", Str("filesystem")), E("dir", Str("/d1"))>>),
      Dict(<<E("spec", Str("stdout")), E("dir", Str("/d1"))>>),
      Dict(<<E("spec", Str("filesystem")), E("dir", Str(""))>>),
      Dict(<<E("profile", Dict(<<
                E("a", Dict(<<E("spec", Str("filesystem")), E("dir", Str("/d1"))>>)) >>))>>),
      Dict(<<E("profile", Dict(<<
                E("a", Dict(<<E("spec", Str("filesystem")), E("dir", Str("/d1"))>>)),
                E("default", Dict(<<E("spec", Str("stdout")), E("dir", Str("/d2"))>>)) >>))>>),
      Dict(<<E("profile", Dict(<<
                E("a", Dict(<<E("spec", Str("stdout"))>>)),
                E("default", Dict(<<E("spec", Str("filesystem")), E("dir", Str("/d2"))>>)) >>))>>) }

InlineTransports == {Dict(<<E("output", o)>>) : o \in TransportOutputs}

\* a write to a stream: into the buffer when the stream is a capture buffer
\* that is open; a write to a closed buffer raises ValueError
write_to(stream, bs, text) ==
    IF stream.t = "buffer" /\ ~bs[stream.owner][stream.name].closed
    THEN [bs EXCEPT ![stream.owner][stream.name].data = Append(@, text)]
    ELSE bs

write_raises(stream, bs) ==
    stream.t = "buffer" /\ bs[stream.owner][stream.name].closed

\* stream.close(): closing the TextIOWrapper closes its BytesIO
close_stream(stream, bs) ==
    IF stream.t = "buffer"
    THEN [bs EXCEPT ![stream.owner][stream.name].closed = TRUE]
    ELSE bs

\* except SystemExit as e: exit_code = e.code if isinstance(e.code, int) else 1
system_exit_code(code) == IF code.t = "int" THEN code.i ELSE 1

restore_only_after_return(old, current, exc) == IF exc = None THEN old ELSE current

\* finally: sys.stdout = old_stdout; sys.stderr = old_stderr:
\* the stream installed when the try statement is left
restored_stream(old, current, exc) == old

\* a run call that has saved the installed streams and not yet put them back
\* (lines 28-42)
InProgress(q) == inl[q].pc \in {"try", "call", "except", "finally"}

\* a call that began after call p is still in progress when p leaves its try
\* statement: the two calls are neither one after the other nor nested
left_open(p) ==
    \E q \in Procs \ {p} : InProgress(q) /\ inl[q].began > inl[p].began

\* run(run_json): the pre-flight, the buffers, old_stdout and old_stderr
\* (lines 19-29)
InlineRun(p) ==
    /\ inl[p].pc = "idle"
    /\ inline_runs < MaxInlineRuns
    /\ inline_runs' = inline_runs + 1
    /\ \E fn \in Callables, transport \in InlineTransports :
         inl' = [inl EXCEPT ![p] =
                   [ IdleInline EXCEPT
                       !.pc = "try", !.fn = fn,
                       !.transport = transport,
                       !.prepared = prepare_output(transport, None),
                       !.began = inline_runs + 1,
                       !.old_stdout = sys_stdout, !.old_stderr = sys_stderr ]]
    /\ bufs' = [bufs EXCEPT ![p] = FreshBuffers]
    /\ UNCHANGED <<sys_stdout, sys_stderr>>
    /\ UNCHANGED <<build_vars, select_vars, first_build, orch_vars, subprocess_vars, ext_vars>>

\* sys.stdout = stdout_text; sys.stderr = stderr_text (lines 31-32)
InlineRedirect(p) ==
    /\ inl[p].pc = "try"
    /\ sys_stdout' = Buffer(p, "stdout")
    /\ sys_stderr' = Buffer(p, "stderr")
    /\ inl' = [inl EXCEPT ![p].pc = "call"]
    /\ UNCHANGED <<bufs, inline_runs>>
    /\ UNCHANGED <<build_vars, select_vars, first_build, orch_vars, subprocess_vars, ext_vars>>

\* self.fn(run_json) (line 33): the callable prints, closes a stream, and
\* returns or raises
InlineCall(p) ==
    /\ inl[p].pc = "call"
    /\ LET fn == inl[p].fn
           printed == IF fn.prints THEN write_to(sys_stdout, bufs, "hello") ELSE bufs
       IN  /\ bufs' = IF fn.closes = "stdout" THEN close_stream(sys_stdout, printed)
                      ELSE IF fn.closes = "stderr" THEN close_stream(sys_stderr, printed)
                      ELSE printed
           /\ inl' = [inl EXCEPT ![p] = [@ EXCEPT !.pc = "except", !.exc = fn.ends]]
    /\ UNCHANGED <<sys_stdout, sys_stderr, inline_runs>>
    /\ UNCHANGED <<build_vars, select_vars, first_build, orch_vars, subprocess_vars, ext_vars>>

\* exit_code = 0, or the except clause that matches (lines 34-39); an
\* exception neither clause matches, or one raised inside a clause, stays
\* pending
InlineExcept(p) ==
    /\ inl[p].pc = "except"
    /\ LET exc == inl[p].exc IN
       IF exc = None
       THEN /\ inl' = [inl EXCEPT ![p] = [@ EXCEPT !.pc = "finally", !.exit_code = 0]]
            /\ UNCHANGED bufs
       ELSE IF exc.exc = "SystemExit"
       THEN /\ inl' = [inl EXCEPT ![p] =
                         [@ EXCEPT !.pc = "finally", !.exc = None,
                                   !.exit_code = system_exit_code(exc.code)]]
            /\ UNCHANGED bufs
       ELSE IF exc.exc = "ValueError"
       THEN \* stderr_text.write(traceback.format_exc())
            IF write_raises(Buffer(p, "stderr"), bufs)
            THEN /\ inl' = [inl EXCEPT ![p] = [@ EXCEPT !.pc = "finally"]]
                 /\ UNCHANGED bufs
            ELSE /\ inl' = [inl EXCEPT ![p] =
                              [@ EXCEPT !.pc = "finally", !.exc = None, !.exit_code = 1]]
                 /\ bufs' = write_to(Buffer(p, "stderr"), bufs, "ValueError: boom")
       ELSE /\ inl' = [inl EXCEPT ![p] = [@ EXCEPT !.pc = "finally"]]
            /\ UNCHANGED bufs
    /\ UNCHANGED <<sys_stdout, sys_stderr, inline_runs>>
    /\ UNCHANGED <<build_vars, select_vars, first_build, orch_vars, subprocess_vars, ext_vars>>

\* the finally clause (lines 40-42); a pending exception then leaves run
InlineFinally(p) ==
    /\ inl[p].pc = "finally"
    /\ sys_stdout' = restored_stream(inl[p].old_stdout, sys_stdout, inl[p].exc)
    /\ sys_stderr' = restored_stream(inl[p].old_stderr, sys_stderr, inl[p].exc)
    /\ inl' = [inl EXCEPT ![p] =
                 [@ EXCEPT !.pc = IF inl[p].exc = None THEN "flush" ELSE "raised",
                           !.unnested = left_open(p),
                           !.result = inl[p].exc]]
    /\ UNCHANGED <<bufs, inline_runs>>
    /\ UNCHANGED <<build_vars, select_vars, first_build, orch_vars, subprocess_vars, ext_vars>>

\* stdout_text.flush(); stderr_text.flush(); return RunResult(exit_code,
\* stdout_buf.getvalue(), stderr_buf.getvalue()) (lines 44-51): flush and
\* getvalue raise ValueError on a closed buffer
InlineReturn(p) ==
    /\ inl[p].pc = "flush"
    /\ inl' = [inl EXCEPT ![p] =
                 IF bufs[p].stdout.closed \/ bufs[p].stderr.closed
                 THEN [@ EXCEPT !.pc = "raised", !.result = Raise("ValueError")]
                 ELSE [@ EXCEPT !.pc = "returned",
                                !.result = RunResult(inl[p].exit_code,
                                                     bufs[p].stdout.data,
                                                     bufs[p].stderr.data)]]
    /\ UNCHANGED <<sys_stdout, sys_stderr, bufs, inline_runs>>
    /\ UNCHANGED <<build_vars, select_vars, first_build, orch_vars, subprocess_vars, ext_vars>>

\* the caller has the RunResult or the exception
InlineDone(p) ==
    /\ inl[p].pc \in {"returned", "raised"}
    /\ inl' = [inl EXCEPT ![p] = IdleInline]
    /\ UNCHANGED <<sys_stdout, sys_stderr, bufs, inline_runs>>
    /\ UNCHANGED <<build_vars, select_vars, first_build, orch_vars, subprocess_vars, ext_vars>>

InlineStep(p) ==
    \/ InlineRun(p)
    \/ InlineRedirect(p)
    \/ InlineCall(p)
    \/ InlineExcept(p)
    \/ InlineFinally(p)
    \/ InlineReturn(p)
    \/ InlineDone(p)

\* the streams a caller may have installed before it calls run: the
\* process's own, or a capture of its own (a test harness)
InstalledStdout == {Original("stdout"), Original("captured stdout")}

InstalledStderr == {Original("stderr"), Original("captured stderr")}

InlineInit ==
    /\ sys_stdout \in InstalledStdout
    /\ sys_stderr \in InstalledStderr
    /\ InlineNoCalls
    /\ SubprocessIdle /\ BuildIdle /\ SelectIdle /\ first_build = Unset /\ OrchIdle
    /\ ExtIdle

\* run calls that do not overlap
SpecInline == InlineInit /\ [][InlineStep(1)]_vars

\* the callables of two run calls in one process: they print, and return or
\* raise
PairCallables ==
    [ prints : {TRUE}, closes : {"none"},
      ends : {None, Raise("ValueError"), Raise("KeyboardInterrupt")} ]

\* two run calls in one process, their steps interleaved in every way: one
\* after the other, one inside the other's callable, or on two threads
PairNext ==
    \E p \in Procs :
        /\ InlineStep(p)
        /\ inl'[p].fn \in PairCallables \cup {Unset}
        /\ inl'[p].transport \in {Dict(<<E("output", Dict(<<E("spec", Str("stdout"))>>))>>), Unset}

SpecInlinePair == InlineInit /\ [][PairNext]_vars

(***************************************************************************)
(* mrp/runtime/subprocess.py: SubprocessRuntime.run                        *)
(***************************************************************************)
\* the most SubprocessRuntime.run calls
MaxSubRuns == 2

\* argv of a program that is installed and of one that is not
SubCommands == { <<"python3", "model.py">>, <<"no-such-program">> }

Installed(command) == command[1] = "python3"

\* SubprocessRuntime(timeout=...): none, or seconds
SubTimeouts == {None, IntV(5)}

\* what a child that finishes leaves: exit status, stdout, stderr
Children ==
    [ status : {0, 1, 3}, stdout : {<<>>, <<"out">>}, stderr : {<<>>, <<"err">>} ]

retry_after_timeout(attempts) == IF attempts < 2 THEN "PENDING" ELSE "TIMED_OUT"

\* subprocess.run(..., timeout=self.timeout) stands in no try statement and
\* in no loop: where a call goes once the timeout has expired
subprocess_timeout_next(attempts) == "TIMED_OUT"

\* RunResult(exit_code=result.returncode, stdout=result.stdout,
\* stderr=result.stderr) (lines 38-42)
completed_result(child) == RunResult(child.status, child.stdout, child.stderr)

\* run(run_json): the pre-flight and the JSON document for standard input
\* (lines 26-28)
SubprocessRun(p) ==
    /\ sub[p].pc = "idle"
    /\ sub_runs < MaxSubRuns
    /\ sub_runs' = sub_runs + 1
    /\ \E command \in SubCommands, timeout \in SubTimeouts,
          transport \in InlineTransports :
         sub' = [sub EXCEPT ![p] =
                   [ IdleSub EXCEPT
                       !.pc = "PENDING", !.command = command, !.timeout = timeout,
                       !.transport = transport,
                       !.prepared = prepare_output(transport, None),
                       !.input_bytes = json_dumps(transport, FALSE) ]]
    /\ UNCHANGED <<build_vars, select_vars, first_build, orch_vars, inline_vars, ext_vars>>

\* subprocess.run spawns the child (lines 30-36); a program that is not
\* installed makes the spawn raise
SubprocessSpawn(p) ==
    /\ sub[p].pc = "PENDING"
    /\ sub' = [sub EXCEPT ![p] =
                 IF Installed(sub[p].command)
                 THEN [@ EXCEPT !.pc = "RUNNING", !.attempts = @ + 1]
                 ELSE [@ EXCEPT !.pc = "SPAWN_FAILED", !.attempts = @ + 1,
                                !.result = Raise("FileNotFoundError")]]
    /\ UNCHANGED sub_runs
    /\ UNCHANGED <<build_vars, select_vars, first_build, orch_vars, inline_vars, ext_vars>>

\* the child finishes: its exit status and captured streams become the
\* RunResult (lines 38-42)
SubprocessChildExit(p) ==
    /\ sub[p].pc = "RUNNING"
    /\ \E child \in Children :
         sub' = [sub EXCEPT ![p] =
                   [@ EXCEPT !.pc = "COMPLETED", !.child = child,
                             !.result = completed_result(child)]]
    /\ UNCHANGED sub_runs
    /\ UNCHANGED <<build_vars, select_vars, first_build, orch_vars, inline_vars, ext_vars>>

\* the timeout expires before the child finishes: subprocess.run kills the
\* child and raises TimeoutExpired (line 35)
SubprocessTimeout(p) ==
    /\ sub[p].pc = "RUNNING"
    /\ sub[p].timeout # None
    /\ LET next == subprocess_timeout_next(sub[p].attempts) IN
       sub' = [sub EXCEPT ![p] =
                 IF next = "TIMED_OUT"
                 THEN [@ EXCEPT !.pc = next, !.result = Raise("TimeoutExpired")]
                 ELSE [@ EXCEPT !.pc = next]]
    /\ UNCHANGED sub_runs
    /\ UNCHANGED <<build_vars, select_vars, first_build, orch_vars, inline_vars, ext_vars>>

\* the caller has the RunResult or the exception
SubprocessDone(p) ==
    /\ sub[p].pc \in {"COMPLETED", "TIMED_OUT", "SPAWN_FAILED"}
    /\ sub' = [sub EXCEPT ![p] = IdleSub]
    /\ UNCHANGED sub_runs
    /\ UNCHANGED <<build_vars, select_vars, first_build, orch_vars, inline_vars, ext_vars>>

SubprocessStep(p) ==
    \/ SubprocessRun(p)
    \/ SubprocessSpawn(p)
    \/ SubprocessChildExit(p)
    \/ SubprocessTimeout(p)
    \/ SubprocessDone(p)

SubprocessInit ==
    SubprocessIdle /\ InlineIdle /\ BuildIdle /\ SelectIdle
    /\ first_build = Unset /\ OrchIdle /\ ExtIdle

SpecSubprocess == SubprocessInit /\ [][SubprocessStep(1)]_vars

(***************************************************************************)
(* The two runtimes called one after the other by one caller               *)
(***************************************************************************)
RuntimesInit == InlineInit

RuntimesNext ==
    \/ sub[1].pc = "idle" /\ InlineStep(1)
    \/ inl[1].pc = "idle" /\ SubprocessStep(1)

SpecRuntimes == RuntimesInit /\ [][RuntimesNext]_vars

(***************************************************************************)
(* Structures by reference: copy.deepcopy, mrp/api.py _deep_merge and      *)
(* apply_dict_overrides, mrp/orchestrator.py load_config, mrp/cfg.py    *)
(* apply_overrides                                                         *)
(***************************************************************************)
\* the most layers load_config is given after the first
MaxLayers == 2

\* a reference to the dict object at address a
Ref(a) == [t |-> "ref", a |-> a]

Bool(b) == [t |-> "bool", b |-> b]

Float(f) == [t |-> "float", f |-> f]

\* the contents reachable from a cell, as a value
RECURSIVE heap_value(_, _)
heap_value(h, c) ==
    IF c.t = "ref"
    THEN Dict([i \in 1..Len(h[c.a]) |-> E(h[c.a][i].k, heap_value(h, h[c.a][i].v))])
    ELSE c

\* the addresses reachable from a cell
RECURSIVE heap_reach(_, _)
heap_reach(h, c) ==
    IF c.t = "ref"
    THEN {c.a} \cup UNION {heap_reach(h, h[c.a][i].v) : i \in 1..Len(h[c.a])}
    ELSE {}

\* a new structure with the contents v: every dict in it is a new object
RECURSIVE heap_new(_, _)
RECURSIVE heap_new_items(_, _, _, _)
heap_new(h, v) ==
    IF v.t = "dict"
    THEN LET a == Len(h) + 1
         IN  [h |-> heap_new_items(Append(h, <<>>), a, v.d, 1), c |-> Ref(a)]
    ELSE [h |-> h, c |-> v]

heap_new_items(h, a, entries, i) ==
    IF i > Len(entries) THEN h
    ELSE LET r == heap_new(h, entries[i].v)
         IN  heap_new_items([r.h EXCEPT ![a] = Append(@, E(entries[i].k, r.c))],
                            a, entries, i + 1)

copy_by_reference(h, c) == [h |-> h, c |-> c]

\* copy.deepcopy(c), for a structure that is a tree
copy_deepcopy(h, c) == heap_new(h, heap_value(h, c))

\* key in obj
obj_has(obj, k) == \E i \in 1..Len(obj) : obj[i].k = k

obj_index(obj, k) == CHOOSE i \in 1..Len(obj) : obj[i].k = k

\* obj[k]
obj_get(obj, k) == obj[obj_index(obj, k)].v

\* obj[k] = c: in place for a key that is there, appended for a new one
obj_set(obj, k, c) ==
    IF obj_has(obj, k) THEN [obj EXCEPT ![obj_index(obj, k)].v = c]
    ELSE Append(obj, E(k, c))

merge_never_recurses(base, key, value) == FALSE

\* key in base and isinstance(base[key], dict) and isinstance(value, dict)
merge_recurses(base, key, value) ==
    obj_has(base, key) /\ obj_get(base, key).t = "ref" /\ value.t = "ref"

\* _deep_merge(base, updates), from the i-th item of updates on: the heap
\* afterwards
RECURSIVE deep_merge(_, _, _, _)
deep_merge(h, base, updates, i) ==
    IF i > Len(h[updates]) THEN h
    ELSE LET key == h[updates][i].k
             value == h[updates][i].v
             h1 == IF merge_recurses(h[base], key, value)
                   THEN deep_merge(h, obj_get(h[base], key).a, value.a, 1)
                   ELSE [h EXCEPT ![base] = obj_set(@, key, value)]
         IN  deep_merge(h1, base, updates, i + 1)

\* apply_dict_overrides(config, overrides): the heap afterwards and the
\* cell returned
apply_dict_overrides(h, cfg, overrides) ==
    LET copied == copy_deepcopy(h, cfg)
    IN  [h |-> deep_merge(copied.h, copied.c.a, overrides.a, 1), c |-> copied.c]

\* parse_value(value): bool, int, float, else the string
parse_value(value) ==
    IF value \in {"true", "True"} THEN Bool(TRUE)
    ELSE IF value = "false" THEN Bool(FALSE)
    ELSE IF value = "99" THEN IntV(99)
    ELSE IF value = "1.5" THEN Float("1.5")
    ELSE Str(value)

\* a --set override after key, _, value = override.partition("="), with the
\* key split at the dots
Override(parts, value) == [parts |-> parts, value |-> value]

\* for part in parts[:-1]: target = target.setdefault(part, {}), then
\* target[parts[-1]] = parse_value(value): the heap afterwards, or the
\* exception (a target that is no dict has no setdefault and takes no item)
RECURSIVE set_path(_, _, _, _, _)
set_path(h, target, parts, i, value) ==
    IF i = Len(parts)
    THEN IF target.t # "ref" THEN Raise("TypeError")
         ELSE [t |-> "heap", h |-> [h EXCEPT ![target.a] = obj_set(@, parts[i], parse_value(value))]]
    ELSE IF target.t # "ref" THEN Raise("AttributeError")
    ELSE IF obj_has(h[target.a], parts[i])
    THEN set_path(h, obj_get(h[target.a], parts[i]), parts, i + 1, value)
    ELSE LET a == Len(h) + 1
             h1 == [Append(h, <<>>) EXCEPT ![target.a] = Append(@, E(parts[i], Ref(a)))]
         IN  set_path(h1, Ref(a), parts, i + 1, value)

\* the loop of apply_overrides over the overrides from the i-th on
RECURSIVE apply_overrides_from(_, _, _, _)
apply_overrides_from(h, root, overrides, i) ==
    IF i > Len(overrides) THEN [t |-> "heap", h |-> h]
    ELSE IF overrides[i].value = "" THEN Raise("ValueError")
    ELSE LET r == set_path(h, root, overrides[i].parts, 1, overrides[i].value)
         IN  IF r.t = "raise" THEN r
             ELSE apply_overrides_from(r.h, root, overrides, i + 1)

\* apply_overrides(config, overrides): the heap afterwards and the cell
\* returned or the exception raised; what the copy became before an
\* exception stays on the heap, unreachable
apply_overrides(h, cfg, overrides) ==
    LET copied == copy_deepcopy(h, cfg)
        r == apply_overrides_from(copied.h, copied.c, overrides, 1)
    IN  IF r.t = "raise" THEN [h |-> copied.h, c |-> r]
        ELSE [h |-> r.h, c |-> copied.c]

\* the loop of load_config over the layers from the i-th on:
\* _deep_merge(result, _load_single_config(layer))
RECURSIVE merge_layers(_, _, _, _)
merge_layers(h, result, layers, i) ==
    IF i > Len(layers) THEN h
    ELSE LET loaded == copy_deepcopy(h, layers[i])
         IN  merge_layers(deep_merge(loaded.h, result.a, loaded.c.a, 1),
                          result, layers, i + 1)

\* load_config(config, *layers, overrides=...)
load_config(h, cfg, layers, overrides) ==
    LET first == copy_deepcopy(h, cfg)
        merged == merge_layers(first.h, first.c, layers, 1)
    IN  IF overrides # <<>>
        THEN apply_overrides(merged, first.c, overrides)
        ELSE [h |-> merged, c |-> first.c]

MergeLeaves == {IntV(1), IntV(2)}

MergeSections ==
    { EmptyDict,
      Dict(<<E("x", IntV(1))>>),
      Dict(<<E("x", IntV(2))>>),
      Dict(<<E("y", IntV(2))>>),
      Dict(<<E("x", IntV(1)), E("y", IntV(2))>>),
      Dict(<<E("x", Dict(<<E("z", IntV(1))>>))>>),
      Dict(<<E("x", Dict(<<E("z", IntV(2)), E("y", IntV(1))>>))>>) }

\* configs whose `input` is a mapping, a scalar or absent, with and without
\* a second section
MergeConfigs ==
    { EmptyDict }
    \cup { Dict(<<E("input", v)>>) : v \in MergeSections \cup {IntV(1)} }
    \cup { Dict(<<E("model", IntV(1))>>),
           Dict(<<E("input", Dict(<<E("x", IntV(1))>>)), E("model", Dict(<<E("x", IntV(2))>>))>>),
           Dict(<<E("model", Dict(<<E("y", IntV(1))>>)), E("input", Dict(<<E("y", IntV(1))>>))>>) }

\* the later layers: a smaller choice
MergeLayers ==
    { Dict(<<E("input", v)>>) :
        v \in { Dict(<<E("x", IntV(2))>>),
                Dict(<<E("x", Dict(<<E("z", IntV(2)), E("y", IntV(1))>>))>>),
                IntV(1) } }
    \cup { Dict(<<E("model", Dict(<<E("y", IntV(1))>>)), E("input", Dict(<<E("y", IntV(1))>>))>>) }

DottedOverrides ==
    { <<>>,
      <<Override(<<"input", "x">>, "99")>>,
      <<Override(<<"input", "x", "z">>, "true")>>,
      <<Override(<<"model">>, "abc"), Override(<<"model", "spec">>, "1.5")>>,
      <<Override(<<"input", "x">>, "")>> }

\* the arguments of a call: the structures, the --set overrides, and the
\* keyword options
MergeArgs(cfg, layers, overrides, options) ==
    [config |-> cfg, layers |-> layers, overrides |-> overrides, options |-> options]

\* output_dir=, output_profile=, orchestrator=, runtime_profile=
Options(od, op, orchestrator, rp) ==
    [output_dir |-> od, output_profile |-> op, orchestrator |-> orchestrator,
     runtime_profile |-> rp]

NoOptions == Options(None, None, None, None)

\* the configs build_run_json and mrp.run are given
BuildHeapConfigs ==
    { MkConfig(Dict(<<E("spec", Str("process")), E("command", Str("python3"))>>),
               Dict(<<E("r0", IntV(2))>>), o) :
        o \in { Absent,
                Dict(<<E("spec", Str("filesystem")), E("dir", Str("/d1"))>>),
                Dict(<<E("profile", Dict(<<E("a", Dict(<<E("spec", Str("filesystem"))>>))>>))>>) } }
    \cup
    { Dict(<<E("model", Dict(<<E("spec", Str("test")), E("files", Dict(<<E("pop", Str(uri))>>))>>)),
             E("input", Dict(<<E("r0", IntV(2))>>))>>) :
        uri \in {"./local/pop.csv", "./missing.csv"} }

\* the overrides mrp.run is given
RunOverrides ==
    { EmptyDict,
      Dict(<<E("input", Dict(<<E("r0", IntV(3))>>))>>),
      Dict(<<E("output", Dict(<<E("spec", Str("filesystem")), E("dir", Str("/d2"))>>))>>) }

\* stage_files(files) for local files, from the i-th entry on: the new
\* mapping, or the exception of the first entry that fails
RECURSIVE stage_files_from(_, _, _)
stage_files_from(files, i, staged) ==
    IF i > Len(files.d) THEN staged
    ELSE LET path == stage_one(files.d[i].k, files.d[i].v.s, TmpDir(1))
         IN  IF path.t = "raise" THEN path
             ELSE stage_files_from(files, i + 1, dict_set(staged, files.d[i].k, path))

\* a local variable: value is computed once and Body is given it by name
Bind(value, Body(_)) == Body(value)

\* build_run_json on structures: the transport is a deep copy of the config
\* with the sections rewritten, and result["model"]["files"] is the
\* staged_files mapping itself (config.py line 115)
build_run_json_heap(h, cfg, staged, options) ==
    Bind(heap_value(h, staged), LAMBDA staged_value :
    Bind(build_run_json(heap_value(h, cfg), staged_value,
                        options.output_dir, options.output_profile), LAMBDA built :
    IF built.t = "raise" THEN [h |-> h, c |-> built]
    ELSE Bind(heap_new(h, built), LAMBDA r :
         IF truthy(staged_value)
         THEN Bind(obj_get(r.h[r.c.a], "model"), LAMBDA model :
              [h |-> [r.h EXCEPT ![model.a] = obj_set(@, "files", staged)], c |-> r.c])
         ELSE r)))

\* mrp.run(config, overrides=, output_dir=, orchestrator=, runtime_profile=,
\* output_profile=) for a config given as a dict: the heap afterwards and
\* the exception raised. DefaultOrchestrator takes no runtime_profile, and
\* orch.run(run_json, loaded) hands the config to Orchestrator.run as the
\* runtime
mrp_run(h, cfg, overrides, options) ==
    Bind(copy_deepcopy(h, cfg), LAMBDA loaded :
    Bind(IF truthy(heap_value(h, overrides))
         THEN apply_dict_overrides(loaded.h, loaded.c, overrides)
         ELSE loaded, LAMBDA merged :
    Bind(raw_files(heap_value(merged.h, merged.c)), LAMBDA files :
    Bind(IF truthy(files) THEN stage_files_from(files, 1, EmptyDict)
         ELSE EmptyDict, LAMBDA staged :
    IF staged.t = "raise" THEN [h |-> merged.h, c |-> staged]
    ELSE Bind(heap_new(merged.h, staged), LAMBDA staged_new :
         Bind(build_run_json_heap(staged_new.h, merged.c, staged_new.c, options),
              LAMBDA run_built :
         IF run_built.c.t = "raise" THEN run_built
         ELSE IF options.orchestrator # None /\ options.runtime_profile # None
         THEN [h |-> run_built.h, c |-> Raise("ValueError")]
         ELSE IF options.orchestrator = None
         THEN [h |-> run_built.h, c |-> Raise("TypeError")]
         ELSE [h |-> run_built.h, c |-> Raise("AttributeError")]))))))

\* the structures a caller holds before the call: each argument a structure
\* of its own
RECURSIVE heap_new_all(_, _, _, _)
heap_new_all(h, values, i, cells) ==
    IF i > Len(values) THEN [h |-> h, cells |-> cells]
    ELSE LET r == heap_new(h, values[i])
         IN  heap_new_all(r.h, values, i + 1, Append(cells, r.c))

MergeCall(op, cfg, layers, overrides, options) ==
    LET r == heap_new_all(<<>>, <<cfg>> \o layers, 1, <<>>)
    IN  /\ mop = op
        /\ heap = r.h
        /\ margs = MergeArgs(r.cells[1], SubSeq(r.cells, 2, Len(r.cells)), overrides, options)
        /\ mbefore = MergeArgs(cfg, layers, overrides, options)
        /\ mret = Unset

MergeInit ==
    \/ \E cfg \in MergeConfigs, overrides \in MergeConfigs :
           MergeCall("apply_dict_overrides", cfg, <<overrides>>, <<>>, NoOptions)
    \/ \E cfg \in MergeConfigs, layers \in SeqsUpTo(MergeLayers, MaxLayers),
          overrides \in DottedOverrides :
           MergeCall("load_config", cfg, layers, overrides, NoOptions)
    \/ \E cfg \in MergeConfigs, overrides \in DottedOverrides :
           MergeCall("apply_overrides", cfg, <<>>, overrides, NoOptions)
    \/ \E cfg \in BuildHeapConfigs, staged \in StagedFiles, od \in OutputDirs,
          op \in {None, Str("x")} :
           MergeCall("build_run_json", cfg, <<staged>>, <<>>, Options(od, op, None, None))
    \/ \E cfg \in BuildHeapConfigs, overrides \in RunOverrides, od \in OutputDirs,
          orchestrator \in {None, Str("DefaultOrchestrator")},
          rp \in {None, Str("a")} :
           MergeCall("run", cfg, <<overrides>>, <<>>, Options(od, None, orchestrator, rp))

\* result = apply_dict_overrides(config, overrides)
ApplyDictOverrides ==
    /\ mop = "apply_dict_overrides" /\ mret = Unset
    /\ LET r == apply_dict_overrides(heap, margs.config, margs.layers[1])
       IN  heap' = r.h /\ mret' = r.c
    /\ UNCHANGED <<mop, margs, mbefore>>
    /\ UNCHANGED <<core_vars, context_vars, call_vars>>

\* result = Orchestrator.load_config(config, *layers, overrides=overrides)
LoadConfig ==
    /\ mop = "load_config" /\ mret = Unset
    /\ LET r == load_config(heap, margs.config, margs.layers, margs.overrides)
       IN  heap' = r.h /\ mret' = r.c
    /\ UNCHANGED <<mop, margs, mbefore>>
    /\ UNCHANGED <<core_vars, context_vars, call_vars>>

\* result = apply_overrides(config, overrides)
ApplyOverrides ==
    /\ mop = "apply_overrides" /\ mret = Unset
    /\ LET r == apply_overrides(heap, margs.config, margs.overrides)
       IN  heap' = r.h /\ mret' = r.c
    /\ UNCHANGED <<mop, margs, mbefore>>
    /\ UNCHANGED <<core_vars, context_vars, call_vars>>

\* result = build_run_json(config, staged_files=staged_files, ...)
BuildRunJsonByReference ==
    /\ mop = "build_run_json" /\ mret = Unset
    /\ LET r == build_run_json_heap(heap, margs.config, margs.layers[1], margs.options)
       IN  heap' = r.h /\ mret' = r.c
    /\ UNCHANGED <<mop, margs, mbefore>>
    /\ UNCHANGED <<core_vars, context_vars, call_vars>>

\* mrp.run(config, overrides=overrides, ...)
MrpRun ==
    /\ mop = "run" /\ mret = Unset
    /\ LET r == mrp_run(heap, margs.config, margs.layers[1], margs.options)
       IN  heap' = r.h /\ mret' = r.c
    /\ UNCHANGED <<mop, margs, mbefore>>
    /\ UNCHANGED <<core_vars, context_vars, call_vars>>

MergeNext ==
    \/ ApplyDictOverrides
    \/ LoadConfig
    \/ ApplyOverrides
    \/ BuildRunJsonByReference
    \/ MrpRun

MergeSpecInit ==
    /\ MergeInit
    /\ BuildIdle /\ SelectIdle /\ first_build = Unset /\ OrchIdle
    /\ InlineIdle /\ SubprocessIdle /\ ContextIdle /\ CallIdle

SpecMerge == MergeSpecInit /\ [][MergeNext]_vars

(***************************************************************************)
(* mrp/runner_context.py RunnerContext and mrp/environment.py Environment: *)
(* construction from a transport, and the lazy random generator            *)
(***************************************************************************)
\* the most accesses of .rng by one context
MaxAccesses == 3

\* the model processes, each with a transport and a context of its own
Models == {1, 2}

\* int(v): an int as it is, a bool as 0 or 1, a float truncated, a string
\* parsed; TypeError for None, ValueError for a string that is no number
py_int(v) ==
    IF v.t = "int" THEN v
    ELSE IF v.t = "bool" THEN IntV(IF v.b THEN 1 ELSE 0)
    ELSE IF v = Float("3.7") THEN IntV(3)
    ELSE IF v = Str("42") THEN IntV(42)
    ELSE IF v.t = "str" THEN Raise("ValueError")
    ELSE Raise("TypeError")

alias_dict(h, c) == [h |-> h, c |-> c]

\* dict(c): a new dict object with the items of c, the values themselves
\* not copied
copy_dict(h, c) == [h |-> Append(h, h[c.a]), c |-> Ref(Len(h) + 1)]

\* obj.pop(k, default): the object without the key
obj_pop(obj, k) == SelectSeq(obj, LAMBDA e : e.k # k)

\* the `input` values of the transports
ContextInputs ==
    { Absent, EmptyDict,
      Dict(<<E("seed", IntV(42))>>),
      Dict(<<E("seed", IntV(7)), E("r0", IntV(2))>>),
      Dict(<<E("r0", IntV(2)), E("seed", IntV(42)), E("replicate", IntV(3)),
             E("pop", Dict(<<E("x", IntV(1))>>))>>),
      Dict(<<E("replicate", IntV(1))>>),
      Dict(<<E("seed", Str("42"))>>),
      Dict(<<E("seed", Float("3.7"))>>),
      Dict(<<E("seed", Str("abc"))>>),
      Dict(<<E("replicate", None)>>),
      Dict(<<E("seed", IntV(0 - 1))>>) }

ContextTransports ==
    { Dict((IF i = Absent THEN <<>> ELSE <<E("input", i)>>)
           \o <<E("output", Dict(<<E("spec", Str("stdout"))>>))>>) : i \in ContextInputs }

ContextKinds == {"RunnerContext", "Environment"}

\* a context: its attributes after __init__
Context(kind, input, seed, replicate) ==
    [ t |-> "context", kind |-> kind, input |-> input, seed |-> seed,
      replicate |-> replicate, rng |-> None, accesses |-> 0,
      returned |-> {}, drawn |-> <<>> ]

\* __init__(data): self.input = dict(data.get("input", {})), seed and
\* replicate popped from it and converted with int(); the heap afterwards and
\* the context, or the exception of the first conversion that fails
context_init(h, kind, data) ==
    LET h0 == IF obj_has(h[data.a], "input") THEN h ELSE Append(h, <<>>)
        given == IF obj_has(h[data.a], "input") THEN obj_get(h[data.a], "input")
                 ELSE Ref(Len(h) + 1)
        copied == copy_dict(h0, given)
        a == copied.c.a
        seed == py_int(IF obj_has(copied.h[a], "seed") THEN obj_get(copied.h[a], "seed")
                       ELSE IntV(0))
        h1 == [copied.h EXCEPT ![a] = obj_pop(@, "seed")]
        replicate == py_int(IF obj_has(h1[a], "replicate") THEN obj_get(h1[a], "replicate")
                            ELSE IntV(0))
        h2 == [h1 EXCEPT ![a] = obj_pop(@, "replicate")]
    IN  IF seed.t = "raise" THEN [h |-> h1, c |-> seed]
        ELSE IF replicate.t = "raise" THEN [h |-> h2, c |-> replicate]
        ELSE [h |-> h2, c |-> Context(kind, copied.c, seed.i, replicate.i)]

\* default_rng(SeedSequence(seed)): a new Generator in its first state
Generator(seed) == [seed |-> seed, n |-> 0]

\* the n-th value a Generator seeded with seed draws
Sample(seed, n) == [t |-> "sample", seed |-> seed, n |-> n]

rng_always_new(current, fresh) == fresh

\* if self._rng is None: self._rng = default_rng(...); return self._rng
rng_cached(current, fresh) == IF current = None THEN fresh ELSE current

ContextInit ==
    /\ \E ts \in [Models -> ContextTransports] :
         LET r == heap_new_all(<<>>, [m \in 1..2 |-> ts[m]], 1, <<>>)
         IN  /\ heap = r.h
             /\ transports = [m \in Models |-> [data |-> r.cells[m], before |-> ts[m]]]
    /\ ctx = [m \in Models |-> Unset]
    /\ gens = <<>>
    /\ mop = "idle" /\ margs = Unset /\ mbefore = Unset /\ mret = Unset

\* ctx = RunnerContext(run_json) or Environment(run_json)
Construct(m) ==
    /\ ctx[m] = Unset
    /\ \E kind \in ContextKinds :
         LET r == context_init(heap, kind, transports[m].data)
         IN  heap' = r.h /\ ctx' = [ctx EXCEPT ![m] = r.c]
    /\ UNCHANGED <<transports, gens>>
    /\ UNCHANGED <<core_vars, mop, margs, mbefore, mret, call_vars>>

\* ctx.rng, read and kept by the caller; SeedSequence raises ValueError for
\* a negative seed, and then no generator is kept
RngAccess(m) ==
    /\ ctx[m] # Unset /\ ctx[m].t = "context"
    /\ ctx[m].accesses < MaxAccesses
    /\ ctx[m].seed >= 0
    /\ LET fresh == Len(gens) + 1
           g == rng_cached(ctx[m].rng, IntV(fresh))
       IN  /\ gens' = IF g = IntV(fresh) THEN Append(gens, Generator(ctx[m].seed)) ELSE gens
           /\ ctx' = [ctx EXCEPT ![m] =
                        [@ EXCEPT !.rng = g, !.accesses = @ + 1,
                                  !.returned = @ \cup {g.i}]]
    /\ UNCHANGED <<transports, heap>>
    /\ UNCHANGED <<core_vars, mop, margs, mbefore, mret, call_vars>>

\* ctx.rng.random(): an access and one draw from the generator returned
Draw(m) ==
    /\ ctx[m] # Unset /\ ctx[m].t = "context"
    /\ ctx[m].accesses < MaxAccesses
    /\ ctx[m].seed >= 0
    /\ LET fresh == Len(gens) + 1
           g == rng_cached(ctx[m].rng, IntV(fresh))
           all == IF g = IntV(fresh) THEN Append(gens, Generator(ctx[m].seed)) ELSE gens
       IN  /\ gens' = [all EXCEPT ![g.i].n = @ + 1]
           /\ ctx' = [ctx EXCEPT ![m] =
                        [@ EXCEPT !.rng = g, !.accesses = @ + 1,
                                  !.returned = @ \cup {g.i},
                                  !.drawn = Append(@, Sample(all[g.i].seed, all[g.i].n + 1))]]
    /\ UNCHANGED <<transports, heap>>
    /\ UNCHANGED <<core_vars, mop, margs, mbefore, mret, call_vars>>

\* ctx.rng for a negative seed: SeedSequence raises ValueError, self._rng
\* stays None
RngFails(m) ==
    /\ ctx[m] # Unset /\ ctx[m].t = "context"
    /\ ctx[m].accesses < MaxAccesses
    /\ ctx[m].seed < 0
    /\ ctx' = [ctx EXCEPT ![m] = [@ EXCEPT !.accesses = @ + 1]]
    /\ UNCHANGED <<transports, heap, gens>>
    /\ UNCHANGED <<core_vars, mop, margs, mbefore, mret, call_vars>>

ContextStep(m) ==
    \/ Construct(m)
    \/ RngAccess(m)
    \/ Draw(m)
    \/ RngFails(m)

ContextNext == \E m \in Models : ContextStep(m)

ContextSpecInit ==
    /\ ContextInit
    /\ BuildIdle /\ SelectIdle /\ first_build = Unset /\ OrchIdle
    /\ InlineIdle /\ SubprocessIdle /\ CallIdle

SpecContext == ContextSpecInit /\ [][ContextNext]_vars

(***************************************************************************)
(* mrp/stager.py called directly: any sequence of stage_files and cleanup  *)
(* calls, with downloads that can fail and a removal that can fail         *)
(***************************************************************************)
MaxStagerCalls == 3

\* what urllib.request.urlretrieve does for each entry of one call
Downloads == [1..MaxFiles -> {"saved", "URLError"}]

\* a cleanup whose guard always passes
cleanup_unguarded(dir, dirs) == TRUE

\* cleanup(): the guard `_stage_dir and _stage_dir.exists()`
cleanup_guard(dir, dirs) == cleanup_removes(dir, dirs)

\* cleanup(): what it leaves in _stage_dir (None, inside the guard only),
\* or the TypeError of shutil.rmtree(None)
cleanup_result(dir, dirs) ==
    IF ~cleanup_guard(dir, dirs) THEN [stage_dir |-> dir, raised |-> None]
    ELSE IF dir = None THEN [stage_dir |-> dir, raised |-> Raise("TypeError")]
    ELSE [stage_dir |-> None, raised |-> None]

\* the stager and the disk before a call, with nothing returned yet; began
\* and fetched tell whether a download was started and whether one was saved
StagerState(dir, dirs, files, count, began, fetched) ==
    [ stage_dir |-> dir, fs_dirs |-> dirs, fs_files |-> files, tmp_count |-> count,
      began |-> began, fetched |-> fetched, result |-> EmptyDict ]

RECURSIVE stage_files_loop(_, _, _, _)
\* the loop of stage_files from entry i on: staged[name] = str(_stage_one(name, uri)),
\* left by the first exception
stage_files_loop(files, i, dl, st) ==
    IF st.result.t = "raise" \/ i > Len(files.d) THEN st
    ELSE LET name == files.d[i].k
             uri == files.d[i].v.s
             fetch == stage_one_fetches(uri)
             root == get_stage_dir(st.stage_dir, st.tmp_count)
             saved == fetch /\ dl[i] = "saved"
             local == IF fetch /\ ~saved THEN Raise("URLError")
                      ELSE stage_one(name, uri, root)
         IN  stage_files_loop(files, i + 1, dl,
                [ st EXCEPT
                    !.tmp_count = IF fetch /\ st.stage_dir = None THEN @ + 1 ELSE @,
                    !.stage_dir = IF fetch THEN root ELSE @,
                    !.fs_dirs = IF fetch THEN @ \cup {root} ELSE @,
                    !.fs_files = IF saved THEN @ \cup {<<root, name>>} ELSE @,
                    !.began = @ \/ fetch,
                    !.fetched = @ \/ saved,
                    !.result = IF local.t = "raise" THEN local
                               ELSE dict_set(@, name, local) ])

\* stage_files(files): {} for an empty map, else the loop
stage_files(files, dl, st) ==
    IF ~truthy(files) THEN st ELSE stage_files_loop(files, 1, dl, st)

\* what the stager remembers of its calls
StagerHistory(calls, began, fetched, last) ==
    [ calls |-> calls, began |-> began, fetched |-> fetched, last |-> last ]

StagerInit ==
    /\ stage_dir = None
    /\ fs_dirs = {}
    /\ fs_files = {}
    /\ tmp_count = 0
    /\ runs = 0
    /\ orch = [p \in Procs |-> IdleFrame]
    /\ stg = StagerHistory(0, FALSE, FALSE, [op |-> "none"])

\* a call of stage_files(files)
StageFiles ==
    /\ stg.calls < MaxStagerCalls
    /\ \E files \in FileMaps, dl \in Downloads :
         LET st == stage_files(files, dl,
                     StagerState(stage_dir, fs_dirs, fs_files, tmp_count, FALSE, FALSE))
         IN  /\ st.tmp_count <= MaxStageDirs
             /\ stage_dir' = st.stage_dir
             /\ fs_dirs' = st.fs_dirs
             /\ fs_files' = st.fs_files
             /\ tmp_count' = st.tmp_count
             /\ stg' = StagerHistory(stg.calls + 1, stg.began \/ st.began,
                                     stg.fetched \/ st.fetched,
                         [ op |-> "stage_files", result |-> st.result,
                           before |-> stage_dir, dirs_before |-> fs_dirs,
                           remote |-> st.began ])
    /\ UNCHANGED <<runs, orch>>
    /\ UNCHANGED <<build_vars, select_vars, first_build, inline_vars, subprocess_vars>>
    /\ UNCHANGED <<merge_vars, context_vars, api, resolve_call, csv>>

\* a call of cleanup(); shutil.rmtree(ignore_errors=True) removes the root or
\* fails silently
StagerCleanup ==
    /\ stg.calls < MaxStagerCalls
    /\ \E removed \in BOOLEAN :
         LET res == cleanup_result(stage_dir, fs_dirs)
             gone == removed /\ cleanup_guard(stage_dir, fs_dirs) /\ res.raised = None
         IN  /\ stage_dir' = res.stage_dir
             /\ fs_dirs' = IF gone THEN fs_dirs \ {stage_dir} ELSE fs_dirs
             /\ fs_files' = IF gone THEN {f \in fs_files : f[1] # stage_dir} ELSE fs_files
             /\ stg' = StagerHistory(stg.calls + 1, FALSE, FALSE,
                         [ op |-> "cleanup", result |-> res.raised,
                           before |-> stage_dir, dirs_before |-> fs_dirs,
                           remote |-> FALSE ])
    /\ UNCHANGED <<tmp_count, runs, orch>>
    /\ UNCHANGED <<build_vars, select_vars, first_build, inline_vars, subprocess_vars>>
    /\ UNCHANGED <<merge_vars, context_vars, api, resolve_call, csv>>

StagerNext == StageFiles \/ StagerCleanup

StagerSpecInit ==
    /\ StagerInit
    /\ BuildIdle /\ SelectIdle /\ first_build = Unset
    /\ InlineIdle /\ SubprocessIdle /\ MergeIdle /\ ContextIdle
    /\ ApiIdle /\ ResolveIdle /\ CsvIdle

SpecStager == StagerSpecInit /\ [][StagerNext]_vars

(***************************************************************************)
(* mrp/api.py: run(config, overrides=, orchestrator=, runtime_profile=)    *)
(***************************************************************************)
MaxApiCalls == 1

\* an Orchestrator passed to run: one that inherits Orchestrator.run, as
\* DefaultOrchestrator does, or one that defines a run of its own
Orchestrators ==
    { [t |-> "orchestrator", run |-> "inherited"],
      [t |-> "orchestrator", run |-> "own"] }

\* the model.files maps of the configs run is given
ApiFiles ==
    { Absent,
      Dict(<<E("pop", Str("./local/pop.csv"))>>),
      Dict(<<E("pop", Str("./missing.csv"))>>),
      Dict(<<E("pop", Str("https://host/data.csv"))>>),
      Dict(<<E("pop", Str("https://host/data.csv")), E("geo", Str("s3://bucket/data.csv"))>>) }

ApiConfigs == {OrchConfig(f, o) : f \in ApiFiles, o \in OrchOutputs}

\* the overrides a caller passes
ApiOverrides == {None, EmptyDict, Dict(<<E("input", Dict(<<E("r0", IntV(3))>>))>>)}

\* the keyword arguments of run
ApiOptions ==
    { Options(None, None, o, rp) : o \in Orchestrators \cup {None},
                                   rp \in {None, Str("a")} }

\* cleanup() on the stager and the disk
cleanup_state(st, removed) ==
    LET res == cleanup_result(st.stage_dir, st.fs_dirs)
        gone == removed /\ cleanup_guard(st.stage_dir, st.fs_dirs) /\ res.raised = None
    IN  [ st EXCEPT !.stage_dir = res.stage_dir,
                    !.fs_dirs = IF gone THEN @ \ {st.stage_dir} ELSE @,
                    !.fs_files = IF gone THEN {f \in @ : f[1] # st.stage_dir} ELSE @ ]

\* loaded = copy.deepcopy(config), then apply_dict_overrides(loaded, overrides)
\* `if overrides`
api_loaded(cfg, overrides) ==
    IF ~truthy(overrides) THEN cfg
    ELSE LET a == heap_new(<<>>, cfg)
             b == heap_new(a.h, overrides)
             r == apply_dict_overrides(b.h, a.c, b.c)
         IN  heap_value(r.h, r.c)

\* what leaves the try block of run before an orchestrator is used: the
\* exception of stage_files or of build_run_json, the ValueError for
\* orchestrator with runtime_profile, or nothing
api_raises(orchestrator, runtime_profile, staged, built) ==
    IF staged.t = "raise" THEN staged
    ELSE IF built.t = "raise" THEN built
    ELSE IF orchestrator # None /\ runtime_profile # None THEN Raise("ValueError")
    ELSE None

\* orch = orchestrator or DefaultOrchestrator(runtime_profile=runtime_profile);
\* return orch.run(run_json, loaded).  DefaultOrchestrator.__init__ takes
\* output_dir and output_profile only (TypeError); Orchestrator.run(run_json,
\* runtime) calls runtime.run(run_json) on the loaded dict (AttributeError);
\* an orchestrator with a run of its own returns what that run returns
api_dispatch(orchestrator, transport, loaded, own_result) ==
    IF orchestrator = None THEN Raise("TypeError")
    ELSE IF orchestrator.run = "inherited" THEN Raise("AttributeError")
    ELSE own_result

\* run(config, ...): the stager and the disk after it, what it returned or
\* raised, the transport it built, and whether Orchestrator.execute was called
api_run(cfg, overrides, options, dl, removed, own_result, st) ==
    Bind(api_loaded(cfg, overrides), LAMBDA loaded :
    Bind(raw_files(loaded), LAMBDA files :
    Bind(IF truthy(files) THEN stage_files(files, dl, st) ELSE st, LAMBDA st1 :
    Bind(IF st1.result.t = "raise" THEN Unset
         ELSE build_run_json(loaded, st1.result, options.output_dir,
                             options.output_profile), LAMBDA built :
    Bind(api_raises(options.orchestrator, options.runtime_profile,
                    st1.result, built), LAMBDA raised :
    [ \* Orchestrator.run's finally clause, then run's own
      st |-> cleanup_state(cleanup_state(st1, removed), removed),
      result |-> IF raised # None THEN raised
                 ELSE api_dispatch(options.orchestrator, built, loaded, own_result),
      loaded |-> loaded,
      run_json |-> IF raised = None THEN built ELSE Unset,
      began |-> st1.began, fetched |-> st1.fetched,
      roots |-> st1.tmp_count - st.tmp_count,
      executed |-> FALSE ])))))

\* one choice of download outcome and of result where these play no part: for
\* an entry that is not downloaded, and without an orchestrator with a run of
\* its own
ApiChoice(cfg, options, dl, own_result) ==
    /\ \A i \in DOMAIN dl :
          IF i <= Len(raw_files(cfg).d)
          THEN stage_one_fetches(raw_files(cfg).d[i].v.s) \/ dl[i] = "saved"
          ELSE dl[i] = "saved"
    /\ IF options.orchestrator = None THEN own_result.exit_code = 0
       ELSE options.orchestrator.run = "own" \/ own_result.exit_code = 0

ApiInit ==
    /\ stage_dir = None
    /\ fs_dirs = {}
    /\ fs_files = {}
    /\ tmp_count = 0
    /\ runs = 0
    /\ orch = [p \in Procs |-> IdleFrame]
    /\ api = [calls |-> 0, last |-> Unset]

\* the caller has what run returned or raised; the stager and the disk are
\* as run left them
ApiReturn(cfg, overrides, options, r) ==
    /\ r.st.tmp_count <= MaxStageDirs
    /\ stage_dir' = r.st.stage_dir
    /\ fs_dirs' = r.st.fs_dirs
    /\ fs_files' = r.st.fs_files
    /\ tmp_count' = r.st.tmp_count
    /\ api' = [ calls |-> api.calls + 1,
                last |-> [ config |-> cfg, overrides |-> overrides,
                           options |-> options, loaded |-> r.loaded,
                           run_json |-> r.run_json, result |-> r.result,
                           began |-> r.began, fetched |-> r.fetched,
                           roots |-> r.roots, executed |-> r.executed ] ]

\* one call of mrp.run
ApiRun ==
    /\ api.calls < MaxApiCalls
    /\ \E cfg \in ApiConfigs, overrides \in ApiOverrides, options \in ApiOptions,
          dl \in Downloads, removed \in BOOLEAN,
          own_result \in {RunResult(0, "stub-ok", ""), RunResult(1, "", "err")} :
         /\ ApiChoice(cfg, options, dl, own_result)
         /\ ApiReturn(cfg, overrides, options,
                      api_run(cfg, overrides, options, dl, removed, own_result,
                              StagerState(stage_dir, fs_dirs, fs_files, tmp_count,
                                          FALSE, FALSE)))
    /\ UNCHANGED <<runs, orch>>
    /\ UNCHANGED <<build_vars, select_vars, first_build, inline_vars, subprocess_vars>>
    /\ UNCHANGED <<merge_vars, context_vars, stg, resolve_call, csv>>

ApiNext == ApiRun

ApiSpecInit ==
    /\ ApiInit
    /\ BuildIdle /\ SelectIdle /\ first_build = Unset
    /\ InlineIdle /\ SubprocessIdle /\ MergeIdle /\ ContextIdle
    /\ StagerIdle /\ ResolveIdle /\ CsvIdle

SpecApi == ApiSpecInit /\ [][ApiNext]_vars

(***************************************************************************)
(* mrp/runtime/__init__.py: resolve_runtime                                *)
(***************************************************************************)
\* the flat runtime sections resolve_runtime is given
ResolveFlats ==
    { EmptyDict,
      Dict(<<E("spec", Str("process")), E("command", Str("python3")),
             E("args", List(<<Str("-c"), Str("pass")>>))>>),
      Dict(<<E("command", Str("python3"))>>),
      Dict(<<E("spec", Str("process"))>>),
      Dict(<<E("command", Str("python3")), E("env", Str("uv"))>>),
      Dict(<<E("command", Str("python3")), E("env", Str("conda"))>>),
      Dict(<<E("spec", Str("inline")), E("callable", Str("json:loads"))>>),
      Dict(<<E("spec", Str("inline"))>>),
      Dict(<<E("spec", Str("inline")), E("callable", Str("no_colon_here"))>>),
      Dict(<<E("spec", Str("inline")), E("callable", Str("nomodule:f"))>>),
      Dict(<<E("spec", Str("wasm"))>>) }

\* the sections of the profiles
ResolveProfiles ==
    { Dict(<<E("spec", Str("process")), E("command", Str("docker")),
             E("args", List(<<Str("run")>>))>>),
      Dict(<<E("spec", Str("inline")), E("callable", Str("json:loads"))>>),
      Dict(<<E("spec", Str("process"))>>) }

\* the configs: no runtime section, a flat one, or one with profiles
ResolveConfigs ==
    {EmptyDict}
    \cup {Dict(<<E("runtime", r)>>) : r \in ResolveFlats}
    \cup {Dict(<<E("runtime", Dict(<<E("profile", m)>>))>>) :
            m \in ProfileMaps({"default", "a"}, ResolveProfiles)}

\* SubprocessRuntime(command=, cwd=, timeout=)
SubprocessRuntime(command, cwd, timeout) ==
    [t |-> "SubprocessRuntime", command |-> command, cwd |-> cwd, timeout |-> timeout]

\* InlineRuntime(fn=)
InlineRuntime(fn) == [t |-> "InlineRuntime", fn |-> fn]

\* _resolve_callable(dotted_path): the attribute of the module, ValueError
\* without `:attr`, ModuleNotFoundError for a module that cannot be imported
resolve_callable(dotted_path) ==
    CASE dotted_path = "json:loads" -> [t |-> "callable", module |-> "json", attr |-> "loads"]
      [] dotted_path = "no_colon_here" -> Raise("ValueError")
      [] dotted_path = "nomodule:f" -> Raise("ModuleNotFoundError")

\* a call _select_profile(section, profile_name, **keywords): the function
\* has the two parameters section and profile_name and no **kwargs, so any
\* other keyword is a TypeError
call_select_profile(sect, name, keywords) ==
    IF keywords \subseteq {"section", "profile_name"}
    THEN select_profile(sect, name)
    ELSE Raise("TypeError")

\* the backend resolve_runtime builds from the chosen section
runtime_of(chosen) ==
    LET spec == dict_get(chosen, "spec", Str("process")) IN
    IF spec = Str("process")
    THEN LET command == dict_get(chosen, "command", None)
             args == dict_get(chosen, "args", List(<<>>))
             env == dict_get(chosen, "env", None)
             full_command == <<command>> \o args.l
         IN  IF ~truthy(command) THEN Raise("ValueError")
             ELSE IF env = Str("uv")
             THEN SubprocessRuntime(<<Str("uv"), Str("run")>> \o full_command,
                                    dict_get(chosen, "cwd", None),
                                    dict_get(chosen, "timeout", None))
             ELSE IF env # None THEN Raise("ValueError")
             ELSE SubprocessRuntime(full_command, dict_get(chosen, "cwd", None),
                                    dict_get(chosen, "timeout", None))
    ELSE IF spec = Str("inline")
    THEN LET callable_path == dict_get(chosen, "callable", None)
         IN  IF ~truthy(callable_path) THEN Raise("ValueError")
             ELSE LET fn == resolve_callable(callable_path.s)
                  IN  IF fn.t = "raise" THEN fn ELSE InlineRuntime(fn)
    ELSE Raise("ValueError")

\* resolve_runtime(config, runtime_profile=): selects with
\* _select_profile(runtime, runtime_profile, section_name="runtime")
resolve_runtime(cfg, runtime_profile) ==
    LET runtime == dict_get(cfg, "runtime", EmptyDict)
        chosen == call_select_profile(runtime, runtime_profile, {"section_name"})
    IN  IF chosen.t = "raise" THEN chosen ELSE runtime_of(chosen)

ResolveInit ==
    \E cfg \in ResolveConfigs, name \in {None, Str("a"), Str("b")} :
        resolve_call = [config |-> cfg, runtime_profile |-> name, result |-> Unset]

\* one call of resolve_runtime
ResolveRuntime ==
    /\ resolve_call.result = Unset
    /\ resolve_call' = [resolve_call EXCEPT !.result = resolve_runtime(resolve_call.config, resolve_call.runtime_profile)]
    /\ UNCHANGED <<core_vars, merge_vars, context_vars, stg, api, csv>>

ResolveNext == ResolveRuntime

ResolveSpecInit ==
    /\ ResolveInit
    /\ BuildIdle /\ SelectIdle /\ first_build = Unset /\ OrchIdle
    /\ InlineIdle /\ SubprocessIdle /\ MergeIdle /\ ContextIdle
    /\ StagerIdle /\ ApiIdle /\ CsvIdle

SpecResolve == ResolveSpecInit /\ [][ResolveNext]_vars

(***************************************************************************)
(* mrp/environment.py: the CSV writers of an Environment                   *)
(***************************************************************************)
MaxCsvCalls == 4

CsvIds == {"a", "b"}

\* a file opened by csv_writer, by its place among the files opened so far
OpenedFile(n) == [t |-> "file", n |-> n]

\* CsvWriter(f, fieldnames, close=close)
CsvWriter(f, close) == [t |-> "CsvWriter", f |-> f, close |-> close]

\* an Environment with no writer registered and no file opened; sys.stdout
\* is open.  output_dir is set for a filesystem output, None for stdout
NewEnvironment(has_output_dir) ==
    [ output_dir |-> has_output_dir,
      csv_writers |-> [i \in CsvIds |-> Absent],
      files |-> <<>>,
      stdout |-> [closed |-> FALSE, rows |-> 0] ]

\* self._writer.writerow(...): one more row in the file or on sys.stdout
writerow(env, f) ==
    IF f.t = "file"
    THEN [env EXCEPT !.files[f.n].rows = @ + 1]
    ELSE [env EXCEPT !.stdout.rows = @ + 1]

\* a write to a closed file raises ValueError
writerow_raises(env, f) ==
    IF f.t = "file" THEN env.files[f.n].closed ELSE env.stdout.closed

\* csv_writer(filename, fieldnames): open a file under output_dir, or take
\* sys.stdout; CsvWriter(f, fieldnames, close=f is not sys.stdout) writes the
\* header row
csv_writer(env) ==
    IF env.output_dir
    THEN LET f == OpenedFile(Len(env.files) + 1)
             opened == [env EXCEPT !.files = Append(@, [closed |-> FALSE, rows |-> 0])]
         IN  [env |-> writerow(opened, f), writer |-> CsvWriter(f, TRUE)]
    ELSE [env |-> writerow(env, Original("stdout")),
          writer |-> CsvWriter(Original("stdout"), FALSE)]

\* CsvWriter.close(): if self._close: self._f.close()
CsvWriter_close(env, writer) ==
    IF ~writer.close THEN env
    ELSE IF writer.f.t = "file" THEN [env EXCEPT !.files[writer.f.n].closed = TRUE]
    ELSE [env EXCEPT !.stdout.closed = TRUE]

\* self._csv_writers[id] = self.csv_writer(filename, fieldnames): a writer
\* already registered under id is replaced
create_csv(env, id) ==
    LET made == csv_writer(env)
    IN  [env |-> [made.env EXCEPT !.csv_writers[id] = made.writer], raised |-> None]

\* self._csv_writers[id].write_row(row)
write_csv_row(env, id) ==
    LET writer == env.csv_writers[id] IN
    IF writer = Absent THEN [env |-> env, raised |-> Raise("KeyError")]
    ELSE IF writerow_raises(env, writer.f) THEN [env |-> env, raised |-> Raise("ValueError")]
    ELSE [env |-> writerow(env, writer.f), raised |-> None]

\* self._csv_writers.pop(id).close()
close_csv(env, id) ==
    LET writer == env.csv_writers[id] IN
    IF writer = Absent THEN [env |-> env, raised |-> Raise("KeyError")]
    ELSE [env |-> CsvWriter_close([env EXCEPT !.csv_writers[id] = Absent], writer),
          raised |-> None]

\* for w in self._csv_writers.values(): w.close()
RECURSIVE close_each(_, _)
close_each(env, ids) ==
    IF ids = {} THEN env
    ELSE LET id == CHOOSE i \in ids : TRUE
         IN  close_each(CsvWriter_close(env, env.csv_writers[id]), ids \ {id})

\* close_all_csv(): close every registered writer, then
\* self._csv_writers.clear()
close_all_csv(env) ==
    LET closed == close_each(env, {i \in CsvIds : env.csv_writers[i] # Absent})
    IN  [env |-> [closed EXCEPT !.csv_writers = [i \in CsvIds |-> Absent]], raised |-> None]

\* a file that no registered writer holds
Unreferenced(env, n) ==
    \A i \in CsvIds :
        IF env.csv_writers[i] = Absent THEN TRUE ELSE env.csv_writers[i].f # OpenedFile(n)

\* one call of the model on its Environment
CsvCall(op, id, outcome) ==
    /\ csv.calls < MaxCsvCalls
    /\ csv' = [ env |-> outcome.env, calls |-> csv.calls + 1,
                last |-> [op |-> op, id |-> id, raised |-> outcome.raised] ]
    /\ UNCHANGED <<core_vars, merge_vars, context_vars, stg, api, resolve_call>>

CreateCsv == \E id \in CsvIds : CsvCall("create_csv", id, create_csv(csv.env, id))

WriteCsvRow == \E id \in CsvIds : CsvCall("write_csv_row", id, write_csv_row(csv.env, id))

CloseCsv == \E id \in CsvIds : CsvCall("close_csv", id, close_csv(csv.env, id))

CloseAllCsv == CsvCall("close_all_csv", None, close_all_csv(csv.env))

\* the interpreter may finalize a file object nothing refers to any more, at a
\* time of its choosing or never before the process ends; the finalizer
\* closes the file
CsvFinalize ==
    /\ \E n \in DOMAIN csv.env.files :
          /\ ~csv.env.files[n].closed
          /\ Unreferenced(csv.env, n)
          /\ csv' = [csv EXCEPT !.env.files[n].closed = TRUE]
    /\ UNCHANGED <<core_vars, merge_vars, context_vars, stg, api, resolve_call>>

CsvInit ==
    \E has_output_dir \in BOOLEAN :
        csv = [ env |-> NewEnvironment(has_output_dir), calls |-> 0,
                last |-> [op |-> "none", id |-> None, raised |-> None] ]

CsvNext == CreateCsv \/ WriteCsvRow \/ CloseCsv \/ CloseAllCsv \/ CsvFinalize

CsvSpecInit ==
    /\ CsvInit
    /\ BuildIdle /\ SelectIdle /\ first_build = Unset /\ OrchIdle
    /\ InlineIdle /\ SubprocessIdle /\ MergeIdle /\ ContextIdle
    /\ StagerIdle /\ ApiIdle /\ ResolveIdle

SpecCsv == CsvSpecInit /\ [][CsvNext]_vars

(***************************************************************************)
(* Claims                                                                  *)
(***************************************************************************)
\* C1: for every config, the transport build_run_json returns holds no
\* `command` key and no `args` key directly under `runtime` nor under any
\* entry of `runtime.profile`, whatever the shape of the runtime section.
C1_TransportHasNoCommandOrArgs ==
    (pc = "built" /\ dict_has(run_json, "runtime")) =>
        LET runtime == dict_get(run_json, "runtime", EmptyDict)
            profiles == dict_get(runtime, "profile", EmptyDict)
        IN  /\ ~dict_has(runtime, "command")
            /\ ~dict_has(runtime, "args")
            /\ \A i \in DOMAIN profiles.d :
                  /\ ~dict_has(profiles.d[i].v, "command")
                  /\ ~dict_has(profiles.d[i].v, "args")

\* C2: for every output section of a transport, the directory the host's
\* _prepare_output creates and the directory the model-side output_dir
\* (RunnerContext and Environment) resolves are the same, or both are None.
C2_HostAndModelResolveTheSameDir ==
    pc = "resolved" => (host_dir = rc_dir /\ host_dir = env_dir)

\* C9 as stated: the section unchanged when it has no `profile` key,
\* otherwise exactly one declared profile: the one called profile_name when
\* that is given and declared, else `default`, else the first declared.
C9_SelectedIndex(profiles, given) ==
    IF given /\ dict_has(profiles, profile_name.s)
    THEN CHOOSE i \in DOMAIN profiles.d : profiles.d[i].k = profile_name.s
    ELSE IF dict_has(profiles, "default")
    THEN CHOOSE i \in DOMAIN profiles.d : profiles.d[i].k = "default"
    ELSE 1

C10_Hash(transport) == dict_get(dict_get(transport, "mrp", EmptyDict), "input_hash", None)

\* C10: the input_hash build_run_json attaches is deterministic: two builds
\* from equal config, staged files, output_dir and output_profile carry the
\* same input_hash; two builds whose transports differ in a field outside
\* `mrp` carry different ones; and two transports built from configs without
\* an `mrp` section that are equal but for the order of their keys carry the
\* same one (the digest is taken over the sorted-key serialization).
C10_InputHashDeterministic ==
    (pc = "built" /\ first_build # Unset /\ first_build.run_json.t = "dict") =>
        LET first == first_build.run_json
            same_hash == C10_Hash(first) = C10_Hash(run_json)
        IN  /\ ( /\ first_build.config = config
                 /\ first_build.staged_files = staged_files
                 /\ first_build.output_dir = output_dir
                 /\ first_build.output_profile = output_profile ) => same_hash
            /\ ~py_eq(dict_pop(first, "mrp"), dict_pop(run_json, "mrp")) => ~same_hash
            /\ ( /\ ~dict_has(first_build.config, "mrp")
                 /\ ~dict_has(config, "mrp")
                 /\ py_eq(dict_pop(first, "mrp"), dict_pop(run_json, "mrp")) ) => same_hash

\* two transports that differ in the value of input.r0 alone, with different hashes
C10_Witness ==
    /\ pc = "built" /\ first_build # Unset /\ first_build.run_json.t = "dict"
    /\ dict_get(first_build.run_json, "input", None) = Dict(<<E("r0", IntV(2))>>)
    /\ dict_get(run_json, "input", None) = Dict(<<E("r0", IntV(3))>>)
    /\ dict_pop(dict_pop(first_build.run_json, "mrp"), "input")
         = dict_pop(dict_pop(run_json, "mrp"), "input")
    /\ C10_Hash(first_build.run_json) # C10_Hash(run_json)

\* C3: Orchestrator.run(run_json, runtime) calls cleanup() once runtime.run
\* has finished, in every outcome (a RunResult with exit code 0, one with a
\* nonzero exit code, an exception), never before, and then hands the
\* RunResult or the exception to the caller unchanged.
C3_CleanupAfterEveryRun ==
    \A p \in Procs :
        /\ (orch[p].outcome = Unset) => (orch[p].cleanups = 0)
        /\ (orch[p].outcome # Unset /\ orch[p].pc \in {"returned", "raised"}) =>
              /\ orch[p].cleanups = 1
              /\ orch[p].result = orch[p].outcome
              /\ (orch[p].pc = "raised") = (orch[p].outcome.t = "raise")

\* runtime.run timed out: cleanup() was called and the exception went on
C3_Witness ==
    \E p \in Procs :
        /\ orch[p].pc = "raised"
        /\ orch[p].outcome = Raise("TimeoutExpired")
        /\ orch[p].result = Raise("TimeoutExpired")
        /\ orch[p].cleanups = 1

\* C4: whenever a DefaultOrchestrator.execute invocation that created the
\* staging root terminates, by returning or by raising, the staging root
\* has been removed and the stager holds no staging root.
C4_StagingRootGoneAtExit ==
    \A p \in Procs :
        (orch[p].pc \in {"returned", "raised"} /\ orch[p].created # {}) =>
            /\ stage_dir = None
            /\ orch[p].created \cap fs_dirs = {}

\* C5: InlineRuntime.run does not raise for a failing callable: a callable
\* that raises a plain error gives a result with exit_code 1, ok false and
\* the error's message in stderr; a callable that exits with integer code n
\* gives a result with exit_code n.
C5_FailingCallableGivesResult ==
    \A p \in Procs :
        inl[p].pc \in {"returned", "raised"} =>
            LET ends == inl[p].fn.ends
                result == inl[p].result
            IN  /\ ends = Raise("ValueError") =>
                       /\ result.t = "result"
                       /\ result.exit_code = 1
                       /\ ~ok(result)
                       /\ \E k \in 1..Len(result.stderr) :
                              result.stderr[k] = "ValueError: boom"
                /\ (ends.t = "raise" /\ ends.exc = "SystemExit" /\ ends.code.t = "int") =>
                       /\ result.t = "result"
                       /\ result.exit_code = ends.code.i

\* C6: once InlineRuntime.run has started calling the callable no exception
\* leaves run, whatever the callable raises and also when it closes the
\* redirected streams: no run call ends by raising.
C6_NoExceptionLeavesRun ==
    \A p \in Procs : inl[p].pc # "raised"

\* C7: for run calls that do not overlap, sys.stdout and sys.stderr are the
\* run's in-memory buffers only between the redirection and the finally
\* clause of run's try statement, and when run has returned or raised they
\* are again the streams that were installed before the call.
C7_StdioRestored ==
    /\ \A p \in Procs :
           /\ inl[p].pc \in {"call", "except", "finally"} =>
                  /\ sys_stdout = Buffer(p, "stdout")
                  /\ sys_stderr = Buffer(p, "stderr")
           /\ inl[p].pc \in {"flush", "returned", "raised"} =>
                  /\ sys_stdout = inl[p].old_stdout
                  /\ sys_stderr = inl[p].old_stderr
    /\ (\A p \in Procs : inl[p].pc \notin {"call", "except", "finally"}) =>
           /\ sys_stdout \in InstalledStdout
           /\ sys_stderr \in InstalledStderr

\* a callable that printed into the buffer and raised an error: run has
\* returned exit_code 1 with the output captured, and the caller's capture
\* streams are installed again
C7_Witness ==
    /\ inl[1].pc = "returned"
    /\ inl[1].fn.ends = Raise("ValueError")
    /\ inl[1].result.exit_code = 1
    /\ inl[1].result.stdout = <<"hello">>
    /\ sys_stdout = Original("captured stdout")
    /\ sys_stderr = Original("captured stderr")

\* the steps a SubprocessRuntime.run call may take
C8_Transition(p) ==
    LET from == sub[p].pc
        to == sub'[p].pc
    IN  \/ from = to
        \/ from = "idle" /\ to = "PENDING"
        \/ from = "PENDING" /\ to \in {"RUNNING", "SPAWN_FAILED"}
        \/ from = "RUNNING" /\ to \in {"COMPLETED", "TIMED_OUT"}
        \/ from \in {"COMPLETED", "TIMED_OUT", "SPAWN_FAILED"} /\ to = "idle"

\* what a SubprocessRuntime.run call holds in each state
C8_Outcome(p) ==
    /\ sub[p].attempts = IF sub[p].pc \in {"idle", "PENDING"} THEN 0 ELSE 1
    /\ sub[p].pc = "COMPLETED" =>
           /\ sub[p].result.t = "result"
           /\ sub[p].result.exit_code = sub[p].child.status
           /\ sub[p].result.stdout = sub[p].child.stdout
           /\ sub[p].result.stderr = sub[p].child.stderr
    /\ sub[p].pc \in {"TIMED_OUT", "SPAWN_FAILED"} => sub[p].result.t = "raise"
    /\ sub[p].pc = "TIMED_OUT" => sub[p].timeout # None
    /\ sub[p].pc \in {"PENDING", "RUNNING"} => sub[p].result = Unset

\* C8: each SubprocessRuntime.run call goes PENDING -> RUNNING ->
\* {COMPLETED | TIMED_OUT} with one spawn attempt and no retry (a spawn that
\* fails raises out of PENDING): a child that finishes gives a RunResult with
\* the child's exit status, nonzero included, and its captured streams; an
\* expired timeout raises and gives no RunResult.
C8_SubprocessStateMachine ==
    /\ [](\A p \in Procs : C8_Outcome(p))
    /\ [][\A p \in Procs : C8_Transition(p)]_vars

\* a child that exited with status 3 and wrote to its error stream: run
\* returned a RunResult with exit_code 3 and that text in stderr
C8_Witness ==
    /\ sub[1].pc = "COMPLETED"
    /\ sub[1].attempts = 1
    /\ sub[1].result = RunResult(3, <<>>, <<"err">>)
    /\ ~ok(sub[1].result)

\* C11: the fingerprint is computed over the transport without the `mrp`
\* section: building again from a built transport, with the same staged
\* files, output_dir and output_profile, gives the input_hash the transport
\* already carries.
C11_RebuildKeepsInputHash ==
    ( /\ pc = "built" /\ first_build # Unset
      /\ first_build.run_json.t = "dict"
      /\ config = first_build.run_json
      /\ first_build.staged_files = staged_files
      /\ first_build.output_dir = output_dir
      /\ first_build.output_profile = output_profile ) =>
        C10_Hash(run_json) = C10_Hash(first_build.run_json)

\* the merge of two mappings as the contract states it: per key, the merge
\* of the two values where both are mappings, else the override's value;
\* the keys of the base alone and of the override alone are both there
RECURSIVE C12_Merged(_, _)
C12_Merged(a, b) ==
    LET both(k) == dict_get(a, k, None).t = "dict" /\ dict_get(b, k, None).t = "dict"
        kept == [i \in 1..Len(a.d) |->
                   LET k == a.d[i].k IN
                   E(k, IF ~dict_has(b, k) THEN a.d[i].v
                        ELSE IF both(k) THEN C12_Merged(a.d[i].v, dict_get(b, k, None))
                        ELSE dict_get(b, k, None))]
        added == SelectSeq(b.d, LAMBDA e : ~dict_has(a, e.k))
    IN  Dict(kept \o added)

\* several layers, merged left to right
RECURSIVE C12_MergedAll(_, _, _)
C12_MergedAll(acc, layers, i) ==
    IF i > Len(layers) THEN acc
    ELSE C12_MergedAll(C12_Merged(acc, layers[i]), layers, i + 1)

\* C12: apply_dict_overrides and the layering of load_config give the deep
\* merge: per key path the recursive merge where both sides hold a mapping,
\* else the override's value wholesale; keys of one side alone are kept;
\* several layers merge left to right, later layers winning.
C12_DeepMerge ==
    (mret # Unset /\ mret.t = "ref") =>
        /\ mop = "apply_dict_overrides" =>
               py_eq(heap_value(heap, mret),
                     C12_Merged(mbefore.config, mbefore.layers[1]))
        /\ (mop = "load_config" /\ mbefore.overrides = <<>>) =>
               py_eq(heap_value(heap, mret),
                     C12_MergedAll(mbefore.config, mbefore.layers, 1))

\* three layers: the second replaces the scalar input.x by a mapping, the
\* third replaces that mapping by a scalar again, and input.y of the first
\* layer is kept
C12_Witness ==
    /\ mop = "load_config" /\ mret # Unset /\ mret.t = "ref"
    /\ mbefore.overrides = <<>>
    /\ mbefore.config = Dict(<<E("input", Dict(<<E("x", IntV(1)), E("y", IntV(2))>>))>>)
    /\ mbefore.layers =
         << Dict(<<E("input", Dict(<<E("x", Dict(<<E("z", IntV(2)), E("y", IntV(1))>>))>>))>>),
            Dict(<<E("input", Dict(<<E("x", IntV(2))>>))>>) >>
    /\ heap_value(heap, mret) =
         Dict(<<E("input", Dict(<<E("x", IntV(2)), E("y", IntV(2))>>))>>)

\* C13: apply_dict_overrides, load_config, apply_overrides, build_run_json
\* and mrp.run leave every structure passed to them as it was before the
\* call, at every depth, whether they return or raise.
C13_ArgumentsNotMutated ==
    mret # Unset =>
        /\ heap_value(heap, margs.config) = mbefore.config
        /\ \A i \in 1..Len(margs.layers) :
               heap_value(heap, margs.layers[i]) = mbefore.layers[i]

\* a merge two levels down that changed input.x.z in the result, with the
\* base and the override as they were
C13_Witness ==
    /\ mop = "apply_dict_overrides" /\ mret # Unset
    /\ mbefore.config = Dict(<<E("input", Dict(<<E("x", Dict(<<E("z", IntV(1))>>))>>))>>)
    /\ mbefore.layers[1] =
         Dict(<<E("input", Dict(<<E("x", Dict(<<E("z", IntV(2)), E("y", IntV(1))>>))>>))>>)
    /\ heap_value(heap, mret) = mbefore.layers[1]
    /\ heap_value(heap, margs.config) = mbefore.config

\* C14: what apply_dict_overrides and build_run_json return shares no
\* mutable sub-structure with an argument (the base config, the override
\* mapping, the staged-files map).
C14_ResultIndependentlyOwned ==
    (mret # Unset /\ mret.t = "ref" /\ mop \in {"apply_dict_overrides", "build_run_json"}) =>
        /\ heap_reach(heap, mret) \cap heap_reach(heap, margs.config) = {}
        /\ \A i \in 1..Len(margs.layers) :
               heap_reach(heap, mret) \cap heap_reach(heap, margs.layers[i]) = {}

\* the output section of the config being built (the default when it has none)
C15_Output == dict_get(config, "output", Dict(<<E("spec", Str("stdout"))>>))

C15_Profiles == dict_get(C15_Output, "profile", None)

\* the profile that selection resolves to: the requested name if declared,
\* else `default`, else the first declared
C15_Index ==
    IF output_profile # None /\ dict_has(C15_Profiles, output_profile.s)
    THEN CHOOSE i \in DOMAIN C15_Profiles.d : C15_Profiles.d[i].k = output_profile.s
    ELSE IF dict_has(C15_Profiles, "default")
    THEN CHOOSE i \in DOMAIN C15_Profiles.d : C15_Profiles.d[i].k = "default"
    ELSE 1

C15_Resolved ==
    IF truthy(C15_Profiles) THEN C15_Profiles.d[C15_Index].v ELSE C15_Output

\* the output section with output_dir in the one `dir` field
C15_Expected ==
    IF truthy(C15_Profiles)
    THEN dict_set(C15_Output, "profile",
           Dict([C15_Profiles.d EXCEPT ![C15_Index].v = dict_set(@, "dir", output_dir)]))
    ELSE dict_set(C15_Output, "dir", output_dir)

\* C15: given an output_dir and a resolved output spec "filesystem",
\* build_run_json writes output_dir into exactly one `dir` field, the flat
\* one or that of the profile selection resolves to, leaves every other
\* profile as it was, and does not fail for an undeclared profile name.
C15_OverrideIntoResolvedProfile ==
    ( /\ pc \in {"built", "raised"}
      /\ truthy(output_dir)
      /\ dict_get(C15_Resolved, "spec", None) = Str("filesystem") ) =>
        /\ run_json.t = "dict"
        /\ py_eq(dict_get(run_json, "output", None), C15_Expected)

\* C16: for a transport built with a profiled filesystem output, an
\* output_profile name and an output_dir D, the directory the host
\* pre-creates and the directory the model side resolves are D.
C16_ModelResolvesTheOverride ==
    ( /\ pc = "resolved"
      /\ truthy(output_dir)
      /\ truthy(C15_Profiles)
      /\ dict_get(C15_Resolved, "spec", None) = Str("filesystem") ) =>
        /\ host_dir = output_dir
        /\ rc_dir = output_dir
        /\ env_dir = output_dir

\* the integer value of a transport's seed or replicate
C17_Integer(v) ==
    IF v.t = "int" THEN v.i
    ELSE IF v = Str("42") THEN 42
    ELSE 3

\* C17: a context built from a transport has input equal to the transport's
\* `input` without exactly the keys seed and replicate, has seed and
\* replicate equal to the integer value of those keys, 0 when absent, and
\* building it leaves the transport, its `input` mapping included, as it was.
C17_ContextRecoversInput ==
    \A m \in Models :
        ctx[m] # Unset =>
            /\ heap_value(heap, transports[m].data) = transports[m].before
            /\ ctx[m].t = "context" =>
                   LET given == dict_get(transports[m].before, "input", EmptyDict) IN
                   /\ heap_value(heap, ctx[m].input)
                        = Dict(SelectSeq(given.d, LAMBDA e : e.k \notin {"seed", "replicate"}))
                   /\ ctx[m].seed = C17_Integer(dict_get(given, "seed", IntV(0)))
                   /\ ctx[m].replicate = C17_Integer(dict_get(given, "replicate", IntV(0)))

\* a context built from an input with seed, replicate and two other keys
C17_Witness ==
    /\ ctx[1] # Unset /\ ctx[1].t = "context"
    /\ dict_get(transports[1].before, "input", None)
         = Dict(<<E("r0", IntV(2)), E("seed", IntV(42)), E("replicate", IntV(3)),
                  E("pop", Dict(<<E("x", IntV(1))>>))>>)
    /\ heap_value(heap, ctx[1].input)
         = Dict(<<E("r0", IntV(2)), E("pop", Dict(<<E("x", IntV(1))>>))>>)
    /\ ctx[1].seed = 42 /\ ctx[1].replicate = 3
    /\ heap_value(heap, transports[1].data) = transports[1].before

\* C18: a context has no generator until .rng is first read, the generator
\* is then built from the context's seed alone, every later read returns
\* that same generator, and two contexts with equal seed draw the same
\* sequence.
C18_LazyCachedSeededRng ==
    /\ \A m \in Models :
           (ctx[m] # Unset /\ ctx[m].t = "context") =>
               /\ (ctx[m].rng = None) = (ctx[m].returned = {})
               /\ ctx[m].rng # None =>
                      /\ ctx[m].returned = {ctx[m].rng.i}
                      /\ gens[ctx[m].rng.i].seed = ctx[m].seed
    /\ Len(gens) = Cardinality({m \in Models : ctx[m] # Unset /\ ctx[m].t = "context"
                                               /\ ctx[m].returned # {}})
    /\ \A m1, m2 \in Models :
           ( /\ ctx[m1] # Unset /\ ctx[m1].t = "context"
             /\ ctx[m2] # Unset /\ ctx[m2].t = "context"
             /\ ctx[m1].seed = ctx[m2].seed ) =>
               \A i \in 1..Len(ctx[m1].drawn) :
                   i <= Len(ctx[m2].drawn) => ctx[m1].drawn[i] = ctx[m2].drawn[i]

\* two contexts with seed 42 and different replicate, each with a generator
\* of its own, read three times and drawn from twice: the same two draws
C18_Witness ==
    /\ ctx[1] # Unset /\ ctx[1].t = "context" /\ ctx[2] # Unset /\ ctx[2].t = "context"
    /\ ctx[1].seed = 42 /\ ctx[2].seed = 42
    /\ ctx[1].replicate # ctx[2].replicate
    /\ ctx[1].accesses = 3 /\ ctx[2].accesses = 3
    /\ ctx[1].rng # None /\ ctx[2].rng # None /\ ctx[1].rng # ctx[2].rng
    /\ Len(ctx[1].drawn) = 2
    /\ ctx[1].drawn = ctx[2].drawn

\* C19: stage_files on a local source whose file exists returns, for that
\* name, the given string unchanged ("./local/pop.csv" comes back as
\* "./local/pop.csv").
C19_LocalPathUnchanged ==
    \A p \in Procs :
        orch[p].pc \in {"stage_files", "build_run_json"} =>
            \A i \in DOMAIN orch[p].staged.d :
                LET name == orch[p].staged.d[i].k
                    uri == dict_get(raw_files(orch[p].config), name, None).s
                IN  uri_scheme(uri) = "" => orch[p].staged.d[i].v = Str(uri)

\* the frame of an execute() whose stage_files call has raised
C20_StagingFailed(p) ==
    /\ orch[p].pc = "raised"
    /\ orch[p].runtime # None
    /\ orch[p].i <= Len(raw_files(orch[p].config).d)

\* the exception an entry's URI leads to, None when the entry is staged
C20_Error(uri) ==
    IF uri_scheme(uri) = "" THEN (IF uri \in LocalFiles THEN None
                                  ELSE Raise("FileNotFoundError"))
    ELSE IF uri_scheme(uri) \in {"http", "https"} THEN None
    ELSE IF uri_scheme(uri) = "s3" THEN Raise("NotImplementedError")
    ELSE Raise("ValueError")

\* C20: stage_files fails fast. The entries are processed in declaration
\* order; the first entry with a missing local file (not-found error), an s3
\* scheme (not-implemented error) or another unknown scheme (unsupported
\* scheme error) aborts the call with that error; no later entry is
\* processed; what the call has fetched before stays on disk; and
\* DefaultOrchestrator.execute never invokes the runtime after it.
C20_StagingFailsFast ==
    \A p \in Procs :
        LET files == raw_files(orch[p].config).d
            staged == orch[p].staged.d
            i == orch[p].i
        IN  /\ orch[p].pc = "stage_files" =>
                \* declaration order: the entries before i, and only those
                /\ Len(staged) = i - 1
                /\ \A j \in DOMAIN staged :
                        /\ staged[j].k = files[j].k
                        /\ C20_Error(files[j].v.s) = None
            /\ C20_StagingFailed(p) =>
                \* the first failing entry, with its own error
                /\ orch[p].result = C20_Error(files[i].v.s)
                /\ orch[p].result.t = "raise"
                /\ \A j \in 1..(i - 1) : C20_Error(files[j].v.s) = None
                \* nothing after it was processed
                /\ Len(staged) = i - 1
                /\ \A j \in i..Len(files) : ~dict_has(orch[p].staged, files[j].k)
                /\ \A j \in (i + 1)..Len(files) :
                        stage_one_fetches(files[j].v.s) =>
                            \A d \in orch[p].created : <<d, files[j].k>> \notin fs_files
                \* no rollback
                /\ \A j \in 1..(i - 1) :
                        stage_one_fetches(files[j].v.s) =>
                            /\ stage_dir # None /\ stage_dir \in fs_dirs
                            /\ <<stage_dir, files[j].k>> \in fs_files
                \* the runtime was not invoked
                /\ orch[p].run_json = Unset
                /\ orch[p].outcome = Unset
                /\ orch[p].cleanups = 0

\* the second entry has failed after the first one was downloaded
C20_Witness ==
    /\ C20_StagingFailed(1)
    /\ orch[1].i = 2
    /\ stage_one_fetches(raw_files(orch[1].config).d[1].v.s)
    /\ <<stage_dir, raw_files(orch[1].config).d[1].k>> \in fs_files
    /\ orch[1].result = Raise("NotImplementedError")

\* C21 as stated: over any sequence of stage_files and cleanup calls the
\* staging root exists only if a remote source has been fetched since the
\* last cleanup.
C21_RootOnlyAfterAFetchedSource ==
    stage_dir # None => stg.fetched

\* C21: over any sequence of stage_files and cleanup calls, the stager holds
\* a staging root only if a remote fetch has been started since the last
\* cleanup, whether or not its download succeeded (staging only local files
\* never creates one); cleanup() never raises, also when nothing was staged
\* or when called twice; and after every cleanup() the stager holds no
\* staging root, so that the next remote fetch creates a fresh one.
C21_LazyRootAndSafeCleanup ==
    /\ stage_dir # None => (stg.began /\ stage_dir \in fs_dirs)
    /\ (stg.last.op = "stage_files" /\ ~stg.last.remote) =>
            /\ stage_dir = stg.last.before
            /\ fs_dirs = stg.last.dirs_before
    /\ stg.last.op = "cleanup" =>
            /\ stg.last.result = None
            /\ stage_dir = None
    /\ (stg.last.op = "stage_files" /\ stg.last.remote /\ stg.last.before = None) =>
            /\ stage_dir = TmpDir(tmp_count)
            /\ stage_dir \notin stg.last.dirs_before

\* a second staging root, made by the first remote fetch after a cleanup
\* that followed a remote fetch
C21_Witness ==
    /\ stg.calls = 3
    /\ stg.last.op = "stage_files" /\ stg.last.remote /\ stg.last.before = None
    /\ stage_dir = TmpDir(2)

\* C22: mrp.run(config, overrides) hands execution to the orchestrator's
\* execute(config, runtime), a DefaultOrchestrator when none is passed, with
\* the merged config that still carries the runtime's command; the transport
\* it runs has the command stripped and carries the overrides; and run
\* returns the RunResult of that execution.
C22_RunReturnsTheResultOfExecute ==
    (api.calls > 0 /\ api.last.run_json # Unset) =>
        /\ api.last.executed
        /\ api.last.result.t = "result"
        /\ dict_has(dict_get(api.last.loaded, "runtime", EmptyDict), "command")
        /\ ~dict_has(dict_get(api.last.run_json, "runtime", EmptyDict), "command")
        /\ truthy(api.last.overrides) =>
              dict_get(dict_get(api.last.run_json, "input", EmptyDict), "r0", None) = IntV(3)

\* C23: mrp.run raises ValueError when both orchestrator and runtime_profile
\* are given, and it is raised before any file is staged: no download was
\* started and no staging root was created.
C23_ValueErrorBeforeAnyStaging ==
    (api.calls > 0 /\ api.last.options.orchestrator # None
                   /\ api.last.options.runtime_profile # None) =>
        /\ api.last.result.t = "raise"
        /\ api.last.result = Raise("ValueError") =>
              /\ ~api.last.began
              /\ api.last.roots = 0

\* the runtime section resolve_runtime selects from
C24_Selected ==
    select_profile(dict_get(resolve_call.config, "runtime", EmptyDict), resolve_call.runtime_profile)

\* C24: resolve_runtime maps the selected runtime section (the flat one, or
\* the profile chosen by profile selection) to a backend: spec "process"
\* (the default) with a command gives a SubprocessRuntime whose argv is
\* [command] followed by args; spec "inline" with a module:attr callable
\* gives an InlineRuntime holding that callable; a missing command, a missing
\* or malformed callable or an unknown spec raises ValueError.
C24_ResolveRuntimeBuildsTheBackend ==
    resolve_call.result # Unset =>
        LET spec == dict_get(C24_Selected, "spec", Str("process"))
            command == dict_get(C24_Selected, "command", None)
            callable_path == dict_get(C24_Selected, "callable", None)
        IN  /\ (spec = Str("process") /\ command # None
                    /\ ~dict_has(C24_Selected, "env")) =>
                    /\ resolve_call.result.t = "SubprocessRuntime"
                    /\ resolve_call.result.command =
                          <<command>> \o dict_get(C24_Selected, "args", List(<<>>)).l
            /\ (spec = Str("inline") /\ callable_path = Str("json:loads")) =>
                    /\ resolve_call.result.t = "InlineRuntime"
                    /\ resolve_call.result.fn.attr = "loads"
            /\ (spec = Str("process") /\ command = None) => resolve_call.result = Raise("ValueError")
            /\ (spec = Str("inline") /\ callable_path \in {None, Str("no_colon_here")}) =>
                    resolve_call.result = Raise("ValueError")
            /\ spec \notin {Str("process"), Str("inline")} => resolve_call.result = Raise("ValueError")

\* the flat section a transport's output resolves to: the section itself
\* when it has no profiles, else the profile named default, else the first
C25_Resolved(transport) ==
    LET output == dict_get(transport, "output", EmptyDict)
        profiles == dict_get(output, "profile", None)
    IN  IF profiles = None THEN output
        ELSE IF \E i \in DOMAIN profiles.d : profiles.d[i].k = "default"
        THEN profiles.d[CHOOSE i \in DOMAIN profiles.d : profiles.d[i].k = "default"].v
        ELSE profiles.d[1].v

\* the directory the model writes into, None when there is none
C25_Dir(transport) ==
    LET resolved == C25_Resolved(transport)
        dir == dict_get(resolved, "dir", None)
    IN  IF dict_get(resolved, "spec", None) = Str("filesystem") /\ dir \notin {None, Str("")}
        THEN dir ELSE None

\* C25: both runtimes run the output pre-flight before the model code
\* starts: when the transport's resolved output has spec "filesystem" and a
\* non-empty dir, that directory has been created when the child process is
\* spawned or the callable is called; for any other spec no directory is
\* created by the run, even if a dir key is present.
C25_PreflightBeforeTheModelStarts ==
    /\ inl[1].pc \in {"call", "except"} => inl[1].prepared = C25_Dir(inl[1].transport)
    /\ sub[1].pc = "RUNNING" => sub[1].prepared = C25_Dir(sub[1].transport)
    /\ (inl[1].pc # "idle" /\ C25_Dir(inl[1].transport) = None) => inl[1].prepared = None
    /\ (sub[1].pc # "idle" /\ C25_Dir(sub[1].transport) = None) => sub[1].prepared = None

\* a child is running on a transport whose default profile is a directory,
\* after an inline run on a transport with a dir key under spec stdout
C25_Witness ==
    /\ sub[1].pc = "RUNNING"
    /\ sub[1].prepared = Str("/d2")
    /\ dict_has(dict_get(sub[1].transport, "output", EmptyDict), "profile")
    /\ inline_runs > 0

\* the remote files an invocation has staged and still works with: its frame
\* is between stage_files and the end of runtime.run
C26_Staged(p) ==
    IF orch[p].pc \in {"stage_files", "build_run_json", "run"}
    THEN {orch[p].staged.d[i].v : i \in {j \in DOMAIN orch[p].staged.d :
                                            orch[p].staged.d[j].v.t = "path"}}
    ELSE {}

\* the staged file is on disk
C26_OnDisk(path) == <<TmpDir(path.root), path.name>> \in fs_files

\* C26: the staging root is one per process, shared by overlapping
\* orchestrator invocations: a staged remote file an invocation still works
\* with is on disk exactly as long as the stager holds the root it was staged
\* into, and a cleanup() by the other invocation takes that root away.  The
\* state the claim names is the witness: one invocation's cleanup() has
\* deleted the root while the other has staged a remote file into it and its
\* runtime has not finished.
C26_SharedRootLostToTheOtherCleanup ==
    \A p \in Procs :
        /\ orch[p].pc \in {"stage_files", "build_run_json", "run"} => orch[p].cleanups = 0
        /\ \A path \in C26_Staged(p) :
              C26_OnDisk(path) <=> stage_dir = TmpDir(path.root)

\* invocation 1 is about to call its runtime on a transport that names a
\* staged file that invocation 2's cleanup() has deleted
C26_Witness ==
    /\ orch[1].pc = "run"
    /\ orch[1].cleanups = 0
    /\ \E path \in C26_Staged(1) :
          /\ ~C26_OnDisk(path)
          /\ path \in {orch[1].run_json.d[i].v.d[j].v.d[k].v :
                          i \in {1}, j \in {2}, k \in DOMAIN orch[1].run_json.d[1].v.d[2].v.d}
    /\ orch[2].pc \in {"returned", "raised"}
    /\ orch[2].cleanups = 1
    /\ TmpDir(1) \notin fs_dirs

\* both run calls have ended and their callers hold the result or the
\* exception; p is the call that began first, on streams that are no capture
\* buffer of a run (the two calls are the only ones under way)
C27_BothEnded(p, q) ==
    /\ p # q
    /\ inl[p].pc \in {"returned", "raised"}
    /\ inl[q].pc \in {"returned", "raised"}
    /\ inl[p].began < inl[q].began
    /\ inl[p].old_stdout \in InstalledStdout
    /\ inl[p].old_stderr \in InstalledStderr

\* sys.stdout and sys.stderr are the streams installed before call p began
C27_Restored(p) ==
    /\ sys_stdout = inl[p].old_stdout
    /\ sys_stderr = inl[p].old_stderr

\* C27 as stated: under every interleaving of two InlineRuntime.run calls in
\* one process, overlapping ones on two threads included, once both have ended
\* sys.stdout and sys.stderr are the streams installed before the first call
\* began.
C27_RestoredUnderEveryInterleaving ==
    \A p, q \in Procs : C27_BothEnded(p, q) => C27_Restored(p)

\* C27, amended: for two InlineRuntime.run calls in one process made one
\* after the other or one nested in the other (no call leaves its try
\* statement while a call that began after it is still in progress), once
\* both have ended sys.stdout and sys.stderr are the streams installed before
\* the first call began.
C27_RestoredWhenSequentialOrNested ==
    \A p, q \in Procs :
        C27_BothEnded(p, q) /\ ~inl[p].unnested /\ ~inl[q].unnested
            => C27_Restored(p)

\* the nested case: call 2 began while call 1's buffers were installed, so it
\* saved and put back call 1's buffers, and call 1 then put back the caller's
\* streams
C27_Witness ==
    /\ C27_BothEnded(1, 2)
    /\ ~inl[1].unnested /\ ~inl[2].unnested
    /\ inl[2].old_stdout = Buffer(1, "stdout")
    /\ inl[2].old_stderr = Buffer(1, "stderr")
    /\ sys_stdout = Original("stdout")
    /\ sys_stderr = Original("stderr")

\* the output directory a transport resolves to: on the host, which creates
\* it before the run, and on the model side, which writes into it
C28_Dirs(transport) ==
    [ host |-> prepare_output(transport, None),
      runner_context |-> rc_output_dir(dict_get(transport, "output", EmptyDict)),
      environment |-> env_output_dir(dict_get(transport, "output", EmptyDict)) ]

\* C28: two transports built by build_run_json that carry the same input_hash
\* resolve to the same output directory, on the host side and on the model
\* side, or both to none; two configs that differ only in the order in which
\* their output profiles are declared do not get one hash and two
\* directories.
C28_SameHashSameOutputDir ==
    ( /\ pc = "built" /\ first_build # Unset /\ first_build.run_json.t = "dict"
      /\ C10_Hash(first_build.run_json) = C10_Hash(run_json) ) =>
        C28_Dirs(first_build.run_json) = C28_Dirs(run_json)

\* the callable returned, or left with a success status: SystemExit(0) or
\* SystemExit with no code
C29_Succeeded(ends) == ends \in {None, SystemExit(IntV(0)), SystemExit(None)}

\* C29: a run call that returns a result reports exit_code 0 exactly when
\* the callable returned normally or exited deliberately with a success
\* status: exit code 0 and no exit code at all both give exit_code 0, and an
\* exit with a code that is no integer gives a nonzero exit_code.
C29_OkExactlyOnSuccess ==
    \A p \in Procs :
        inl[p].pc = "returned" =>
            /\ (inl[p].result.exit_code = 0) <=> C29_Succeeded(inl[p].fn.ends)
            /\ inl[p].fn.ends = SystemExit(Str("fatal")) => inl[p].result.exit_code # 0

\* C30: over any sequence of create_csv, write_csv_row, close_csv and
\* close_all_csv calls, when close_all_csv has returned no writer is
\* registered and every file the environment opened for a CSV writer is
\* closed, also the file of a writer whose id a second create_csv re-used;
\* and sys.stdout is never closed by closing a writer that targets it.
C30_CloseAllClosesEveryFile ==
    /\ csv.last.op = "close_all_csv" =>
          /\ \A i \in CsvIds : csv.env.csv_writers[i] = Absent
          /\ \A n \in DOMAIN csv.env.files : csv.env.files[n].closed
    /\ ~csv.env.stdout.closed

====
